---------------------------- MODULE Spec2Model ----------------------------
(***************************************************************************)
(* Trading journal (src/app.py): the trade list and account balance, the   *)
(* review table and stats bar derived from them, the partial-close and     *)
(* close-trade handlers of the review popup, the pips/price synchronisation*)
(* of the entry form, the market session classifier and the playbook       *)
(* option store.                                                           *)
(*                                                                         *)
(* Numbers are fixed point.  A price is an integer number of 1/1000, a pip *)
(* distance an integer number of 1/100 pip, a lot size an integer number   *)
(* of 1/10000 lot and an amount of money an integer number of 1/100000     *)
(* dollar.  The text of an entry widget is a record [num, val]: num says   *)
(* whether float()/DoubleVar.get() accepts the text, val is its value.     *)
(***************************************************************************)
EXTENDS Integers, Sequences, FiniteSets, TLC

PriceScale == 10 ^ 3
PipScale   == 10 ^ 2
LotScale   == 10 ^ 4
MoneyScale == 10 ^ 5

\* src/app.py:16  PIP_VALUE_XAUUSD = 0.1 (price per pip), in price units.
PIP_VALUE_XAUUSD == 100
\* src/app.py:17  USD_PER_PIP_PER_LOT = 10 (dollars).
USD_PER_PIP_PER_LOT == 10
\* src/app.py:1164  the 0.0001 lot slack of the remaining-lots test.
LOT_TOLERANCE == 1
\* src/app.py:146, 773  the starting balance 10000.00.
DEFAULT_BALANCE == 10000 * MoneyScale

Num(v) == [num |-> TRUE, val |-> v]
Txt    == [num |-> FALSE, val |-> 0]     \* "" or any other text float() rejects

Abs(x) == IF x < 0 THEN -x ELSE x

(***************************************************************************)
(* round(x, n) and f"{x:.nf}" keep a multiple of `step` units.  Away from  *)
(* a tie the result is the nearest multiple; on a tie the binary value of  *)
(* the float decides, so the caller supplies the direction (`up`).         *)
(***************************************************************************)
RoundTo(x, step, up) ==
    LET r  == x % step
        lo == x - r
    IN  IF r = 0 THEN x
        ELSE IF 2 * r < step THEN lo
        ELSE IF 2 * r > step THEN lo + step
        ELSE IF up THEN lo + step ELSE lo


(***************************************************************************)
(* Entry form: the SL and TP pips/price pairs (build_journal_tab).  The    *)
(* form is a record; `runs` counts the handler bodies that got past the    *)
(* reentrancy guard since the user's last edit.  Writing a traced variable *)
(* calls its trace callback before the write returns (lines 420-427).      *)
(* The loss/profit labels written by update_sl_loss and update_tp_profit   *)
(* are display text and are left out.                                      *)
(***************************************************************************)
RECURSIVE update_sl_from_pips(_, _), update_sl_from_price(_, _)
RECURSIVE update_tp_from_pips(_, _), update_tp_from_price(_, _)

\* A stop-loss price that ignores the direction of the trade.
SlPriceFromPips_SameSign(trade_type, entry, pips) ==
    entry - (pips * PIP_VALUE_XAUUSD) \div PipScale

\* lines 1638-1641: the stop-loss price for a pip distance, unrounded.
SlPriceFromPips(trade_type, entry, pips) ==
    IF trade_type = "Buy"
    THEN entry - (pips * PIP_VALUE_XAUUSD) \div PipScale
    ELSE entry + (pips * PIP_VALUE_XAUUSD) \div PipScale

\* A stop-loss pip distance measured towards the profit side.
SlPipsFromPrice_WrongSign(trade_type, entry, price, up) ==
    IF trade_type = "Buy"
    THEN RoundTo(((price - entry) * PipScale) \div PIP_VALUE_XAUUSD, PipScale \div 10, up)
    ELSE RoundTo(((entry - price) * PipScale) \div PIP_VALUE_XAUUSD, PipScale \div 10, up)

\* lines 1658-1661: the stop-loss pip distance of a price, rounded to 0.1 pip.
SlPipsFromPrice(trade_type, entry, price, up) ==
    IF trade_type = "Buy"
    THEN RoundTo(((entry - price) * PipScale) \div PIP_VALUE_XAUUSD, PipScale \div 10, up)
    ELSE RoundTo(((price - entry) * PipScale) \div PIP_VALUE_XAUUSD, PipScale \div 10, up)

\* lines 1678-1681: the take-profit price for a pip distance, unrounded.
TpPriceFromPips(trade_type, entry, pips) ==
    IF trade_type = "Buy"
    THEN entry + (pips * PIP_VALUE_XAUUSD) \div PipScale
    ELSE entry - (pips * PIP_VALUE_XAUUSD) \div PipScale

\* lines 1698-1701: the take-profit pip distance of a price, rounded to 0.1 pip.
TpPipsFromPrice(trade_type, entry, price, up) ==
    IF trade_type = "Buy"
    THEN RoundTo(((price - entry) * PipScale) \div PIP_VALUE_XAUUSD, PipScale \div 10, up)
    ELSE RoundTo(((entry - price) * PipScale) \div PIP_VALUE_XAUUSD, PipScale \div 10, up)

\* round(price, 2)
Round2(price, up) == RoundTo(price, PriceScale \div 100, up)

\* A write of sl_price_var / sl_pips_var / tp_price_var / tp_pips_var with
\* its trace callback (lines 420-423).
WriteSlPrice(f, v, up) == update_sl_from_price([f EXCEPT !.sl_price = v], up)
WriteSlPips(f, v, up)  == update_sl_from_pips([f EXCEPT !.sl_pips = v], up)
WriteTpPrice(f, v, up) == update_tp_from_price([f EXCEPT !.tp_price = v], up)
WriteTpPips(f, v, up)  == update_tp_from_pips([f EXCEPT !.tp_pips = v], up)

\* line 1632: the reentrancy guard of the four handlers.
SlTpGuard(f) == f.is_updating

\* lines 1631-1649
update_sl_from_pips(f, up) ==
    IF SlTpGuard(f) THEN f
    ELSE LET f1 == [f EXCEPT !.is_updating = TRUE, !.runs = @ + 1]
             ok == f1.entry_price.num /\ f1.sl_pips.num /\ f1.sl_price.num
             price == SlPriceFromPips(f1.trade_type, f1.entry_price.val, f1.sl_pips.val)
             f2 == IF ok /\ f1.sl_price.val # price
                   THEN WriteSlPrice(f1, Num(Round2(price, up)), up)
                   ELSE f1
         IN  [f2 EXCEPT !.is_updating = FALSE]

\* lines 1651-1669
update_sl_from_price(f, up) ==
    IF SlTpGuard(f) THEN f
    ELSE LET f1 == [f EXCEPT !.is_updating = TRUE, !.runs = @ + 1]
             ok == f1.entry_price.num /\ f1.sl_price.num /\ f1.sl_pips.num
             pips == SlPipsFromPrice(f1.trade_type, f1.entry_price.val, f1.sl_price.val, up)
             f2 == IF ok /\ f1.sl_pips.val # pips
                   THEN WriteSlPips(f1, Num(pips), up)
                   ELSE f1
         IN  [f2 EXCEPT !.is_updating = FALSE]

\* lines 1671-1689
update_tp_from_pips(f, up) ==
    IF SlTpGuard(f) THEN f
    ELSE LET f1 == [f EXCEPT !.is_updating = TRUE, !.runs = @ + 1]
             ok == f1.entry_price.num /\ f1.tp_pips.num /\ f1.tp_price.num
             price == TpPriceFromPips(f1.trade_type, f1.entry_price.val, f1.tp_pips.val)
             f2 == IF ok /\ f1.tp_price.val # price
                   THEN WriteTpPrice(f1, Num(Round2(price, up)), up)
                   ELSE f1
         IN  [f2 EXCEPT !.is_updating = FALSE]

\* lines 1691-1709
update_tp_from_price(f, up) ==
    IF SlTpGuard(f) THEN f
    ELSE LET f1 == [f EXCEPT !.is_updating = TRUE, !.runs = @ + 1]
             ok == f1.entry_price.num /\ f1.tp_price.num /\ f1.tp_pips.num
             pips == TpPipsFromPrice(f1.trade_type, f1.entry_price.val, f1.tp_price.val, up)
             f2 == IF ok /\ f1.tp_pips.val # pips
                   THEN WriteTpPips(f1, Num(pips), up)
                   ELSE f1
         IN  [f2 EXCEPT !.is_updating = FALSE]

\* lines 1741-1743
sync_all_sl_tp(f, up) == update_tp_from_pips(update_sl_from_pips(f, up), up)

\* None, which json writes as null and reads back as None; no path the
\* file dialog returns is this one.
None == "<None>"

\* lines 63-67, 101-105
DefaultScreenshots ==
    [tf \in {"D1", "H4", "H1"} |-> [before |-> None, after |-> None]]

\* lines 252-273: the variables as build_journal_tab creates them (entry
\* 2300.0, lot 1.0, the four DoubleVars 0.0); no trace has run yet.
InitialForm ==
    [trade_type |-> "Buy", entry_price |-> Num(2300 * PriceScale),
     lot_size |-> Num(1 * LotScale),
     sl_pips |-> Num(0), sl_price |-> Num(0),
     tp_pips |-> Num(0), tp_price |-> Num(0),
     is_updating |-> FALSE, runs |-> 0,
     tf_screenshots |-> DefaultScreenshots]


\* line 193 -> 773 -> 426: load_trades sets account_balance_var, whose trace
\* runs sync_all_sl_tp once before the window is shown.
FormAfterInit(up) == [sync_all_sl_tp(InitialForm, up) EXCEPT !.runs = 0]

\* lines 1564-1572: select_buy / select_sell write trade_type_var (trace:
\* sync_all_sl_tp, line 427) and then call sync_all_sl_tp themselves.
select_trade_type(f, tt, up) ==
    sync_all_sl_tp(sync_all_sl_tp([f EXCEPT !.trade_type = tt], up), up)

\* The user typing into the entry-price widget (trace: line 424).
WriteEntryPrice(f, v, up) == sync_all_sl_tp([f EXCEPT !.entry_price = v], up)

(***************************************************************************)
(* State.  The entry form, the market-session widgets, the journal with    *)
(* its review popup and the playbook are separate parts of the window;     *)
(* each specification below exercises one part and leaves the others in    *)
(* their state after construction.                                         *)
(***************************************************************************)
VARIABLES form, edited, nedits
VARIABLES trade_date_ok, trade_time_var, timezone_var, market_session_var
VARIABLES trades, account_balance_var, journal_file, trades_tree,
          trade_stats_var, popup, messagebox, last, nops, mainloop,
          journal_backup, history

formVars == <<form, edited, nedits>>
sessionVars == <<trade_date_ok, trade_time_var, timezone_var, market_session_var>>
journalVars == <<trades, account_balance_var, journal_file, trades_tree,
                 trade_stats_var, popup, messagebox, last, nops, mainloop,
                 journal_backup, history>>
VARIABLES playbook_options, playbook_files, playbook_messagebox, last_add,
          last_change, nplaybook, playbook_file_state, playbook_loaded,
          file_errors

playbookVars ==
    <<playbook_options, playbook_files, playbook_messagebox, last_add,
      last_change, nplaybook, playbook_file_state, playbook_loaded,
      file_errors>>
vars == <<formVars, sessionVars, journalVars, playbookVars>>

\* Bound on the number of user edits of the form in one run.
MaxEdits == 4

Ties == BOOLEAN

\* What the user types into the pips, price and entry-price widgets.
FormSlPips   == {Num(0), Num(4), Num(1230), Txt}
FormSlPrices == {Num(2299996), Num(2310500), Txt}
FormTpPips   == {Num(0), Num(4), Num(1230), Txt}
FormTpPrices == {Num(2299996), Num(2310500), Txt}
FormEntries  == {Num(2300 * PriceScale), Num(2300015), Txt}

FormLots     == {Num(1 * LotScale), Num(LotScale \div 2)}

Fresh(f) == [f EXCEPT !.runs = 0]

\* The ghost record of the last edit when the form was last written by an
\* operation that is not an edit of one of its widgets.
NoEdit == [field |-> "", value |-> Txt]

EditSlPips ==
    /\ nedits < MaxEdits
    /\ nedits' = nedits + 1
    /\ \E v \in FormSlPips, up \in Ties :
         /\ form' = WriteSlPips(Fresh(form), v, up)
         /\ edited' = [field |-> "sl_pips", value |-> v]
    /\ UNCHANGED <<sessionVars, journalVars, playbookVars>>

EditSlPrice ==
    /\ nedits < MaxEdits
    /\ nedits' = nedits + 1
    /\ \E v \in FormSlPrices \cup {form.sl_price}, up \in Ties :
         /\ form' = WriteSlPrice(Fresh(form), v, up)
         /\ edited' = [field |-> "sl_price", value |-> v]
    /\ UNCHANGED <<sessionVars, journalVars, playbookVars>>

EditTpPips ==
    /\ nedits < MaxEdits
    /\ nedits' = nedits + 1
    /\ \E v \in FormTpPips, up \in Ties :
         /\ form' = WriteTpPips(Fresh(form), v, up)
         /\ edited' = [field |-> "tp_pips", value |-> v]
    /\ UNCHANGED <<sessionVars, journalVars, playbookVars>>

EditTpPrice ==
    /\ nedits < MaxEdits
    /\ nedits' = nedits + 1
    /\ \E v \in FormTpPrices \cup {form.tp_price}, up \in Ties :
         /\ form' = WriteTpPrice(Fresh(form), v, up)
         /\ edited' = [field |-> "tp_price", value |-> v]
    /\ UNCHANGED <<sessionVars, journalVars, playbookVars>>

EditEntryPrice ==
    /\ nedits < MaxEdits
    /\ nedits' = nedits + 1
    /\ \E v \in FormEntries, up \in Ties :
         /\ form' = WriteEntryPrice(Fresh(form), v, up)
         /\ edited' = [field |-> "entry_price", value |-> v]
    /\ UNCHANGED <<sessionVars, journalVars, playbookVars>>

SelectTradeType ==
    /\ nedits < MaxEdits
    /\ nedits' = nedits + 1
    /\ \E tt \in {"Buy", "Sell"}, up \in Ties :
         /\ form' = select_trade_type(Fresh(form), tt, up)
         /\ edited' = [field |-> "trade_type", value |-> Txt]
    /\ UNCHANGED <<sessionVars, journalVars, playbookVars>>

\* The user typing into the lot-size widget (trace: line 425).
EditLotSize ==
    /\ nedits < MaxEdits
    /\ nedits' = nedits + 1
    /\ \E v \in FormLots, up \in Ties :
         /\ form' = sync_all_sl_tp([Fresh(form) EXCEPT !.lot_size = v], up)
         /\ edited' = [field |-> "lot_size", value |-> v]
    /\ UNCHANGED <<sessionVars, journalVars, playbookVars>>




(***************************************************************************)
(* Claims about the entry form (checked under SpecForm).                   *)
(***************************************************************************)
HalfCent == (PriceScale \div 100) \div 2

\* The handler that derives the SL (TP) price from the pips ran on numbers.
SlDerivedFromPips ==
    /\ edited.field \in {"sl_pips", "entry_price", "trade_type"}
    /\ form.entry_price.num /\ form.sl_pips.num /\ form.sl_price.num
TpDerivedFromPips ==
    /\ edited.field \in {"tp_pips", "entry_price", "trade_type"}
    /\ form.entry_price.num /\ form.tp_pips.num /\ form.tp_price.num

\* entry -/+ pips * pip_value as the claim writes it (SL: minus for Buy).
SlClaimed == IF form.trade_type = "Buy"
             THEN form.entry_price.val - (form.sl_pips.val * PIP_VALUE_XAUUSD) \div PipScale
             ELSE form.entry_price.val + (form.sl_pips.val * PIP_VALUE_XAUUSD) \div PipScale
TpClaimed == IF form.trade_type = "Buy"
             THEN form.entry_price.val + (form.tp_pips.val * PIP_VALUE_XAUUSD) \div PipScale
             ELSE form.entry_price.val - (form.tp_pips.val * PIP_VALUE_XAUUSD) \div PipScale

SlRoundTrip ==
    /\ edited.field = "sl_pips" /\ edited.value.num /\ edited.value.val >= 0
    /\ form.entry_price.num /\ form.sl_price.num
    /\ edited'.field = "sl_price" /\ edited'.value = form.sl_price
TpRoundTrip ==
    /\ edited.field = "tp_pips" /\ edited.value.num /\ edited.value.val >= 0
    /\ form.entry_price.num /\ form.tp_price.num
    /\ edited'.field = "tp_price" /\ edited'.value = form.tp_price

TwoDecimals(price) == price % (PriceScale \div 100) = 0
OneDecimal(pips)   == pips % (PipScale \div 10) = 0

\* C8 as stated: for Buy and Sell, SL and TP and every pips value p >= 0,
\* converting p to a price and that price back to pips gives p again.
C8_Original ==
    [][ /\ SlRoundTrip => form'.sl_pips = edited.value
        /\ TpRoundTrip => form'.tp_pips = edited.value ]_vars

\* C8 amended: for Buy and Sell, SL and TP, every pips value p >= 0 with at
\* most one decimal and an entry price with at most two decimals, converting
\* p to a price and that price back to pips gives p again.
C8_RoundTrip ==
    [][ /\ (SlRoundTrip /\ OneDecimal(edited.value.val)
                        /\ TwoDecimals(form.entry_price.val))
              => form'.sl_pips = edited.value
        /\ (TpRoundTrip /\ OneDecimal(edited.value.val)
                        /\ TwoDecimals(form.entry_price.val))
              => form'.tp_pips = edited.value ]_vars

\* A Sell whose TP of 12.3 pips went to the price 2298.77 and came back.
C8_Witness ==
    /\ form.trade_type = "Sell" /\ form.entry_price = Num(2300 * PriceScale)
    /\ edited = [field |-> "tp_price", value |-> Num(2298770)]
    /\ form.tp_price = Num(2298770) /\ form.tp_pips = Num(1230)
    /\ form.runs = 1

\* The user typed a number into one field of the SL or the TP pair.
PairEdit ==
    /\ edited.field \in {"sl_pips", "sl_price", "tp_pips", "tp_price"}
    /\ edited.value.num

EditedField ==
    CASE edited.field = "sl_pips"  -> form.sl_pips
      [] edited.field = "sl_price" -> form.sl_price
      [] edited.field = "tp_pips"  -> form.tp_pips
      [] edited.field = "tp_price" -> form.tp_price

OtherField ==
    CASE edited.field = "sl_pips"  -> form.sl_price
      [] edited.field = "sl_price" -> form.sl_pips
      [] edited.field = "tp_pips"  -> form.tp_price
      [] edited.field = "tp_price" -> form.tp_pips

\* The two fields of the edited pair agree up to the rounding of the derived
\* one (0.005 of price, which is 0.05 pip).
PairInSync ==
    IF edited.field \in {"sl_pips", "sl_price"}
    THEN Abs(form.sl_price.val - SlClaimed) <= HalfCent
    ELSE Abs(form.tp_price.val - TpClaimed) <= HalfCent

\* C9: one user edit of a field of a synchronised pair causes exactly one
\* derivation: the edited field keeps the user's value, the other field is
\* derived from it, the write of the derived field starts no reverse
\* derivation, and the reentrancy flag is False once the handler has returned.
C9_Claim ==
    (PairEdit /\ form.entry_price.num) =>
        /\ EditedField = edited.value
        /\ OtherField.num /\ PairInSync
        /\ form.runs = 1
        /\ ~form.is_updating

\* What holds of C9 on every edit, numbers or not: one handler body runs, the
\* edited field keeps the typed text, the flag is False afterwards, and the
\* pair is in sync when the three fields read are numbers.
C9_GuardOnly ==
    edited.field \in {"sl_pips", "sl_price", "tp_pips", "tp_price"} =>
        /\ EditedField = edited.value
        /\ form.runs = 1
        /\ ~form.is_updating
        /\ (form.entry_price.num /\ EditedField.num /\ OtherField.num) => PairInSync


(***************************************************************************)
(* Market session classifier (update_market_session).  A time of day is a  *)
(* number of minutes since 00:00.  The text of the trade-time widget is a  *)
(* record [hh, mm]; mm = NoMinutes is a text without ":" such as "9".      *)
(* The date widget is abstracted to whether strptime accepts its text.     *)
(* Only zones without daylight saving are modelled, so that the UTC time   *)
(* does not depend on the date.                                            *)
(***************************************************************************)
Hm(h, m) == h * 60 + m
DayMinutes == Hm(24, 0)

\* A session table whose Tokyo session lasts until 14:00.
MARKET_SESSIONS_UTC_LongTokyo ==
    << [name |-> "Sydney",   start |-> Hm(21, 0), end |-> Hm(6, 0)],
       [name |-> "Tokyo",    start |-> Hm(0, 0),  end |-> Hm(14, 0)],
       [name |-> "London",   start |-> Hm(8, 0),  end |-> Hm(17, 0)],
       [name |-> "New York", start |-> Hm(13, 0), end |-> Hm(22, 0)] >>

\* lines 39-44
MARKET_SESSIONS_UTC ==
    << [name |-> "Sydney",   start |-> Hm(21, 0), end |-> Hm(6, 0)],
       [name |-> "Tokyo",    start |-> Hm(0, 0),  end |-> Hm(9, 0)],
       [name |-> "London",   start |-> Hm(8, 0),  end |-> Hm(17, 0)],
       [name |-> "New York", start |-> Hm(13, 0), end |-> Hm(22, 0)] >>

\* A classifier that reads a name pytz rejects as Tokyo time.
UtcOffset_UnknownAsTokyo(tzname) ==
    CASE tzname = "UTC"        -> 0
      [] tzname = "Asia/Tokyo" -> Hm(9, 0)
      [] OTHER                 -> Hm(9, 0)

\* pytz's UTC offset (minutes east of UTC) of the zones of line 45 that
\* have a fixed offset; for a name pytz.timezone() rejects, the offset of
\* pytz.UTC (lines 1746-1750).
UtcOffset(tzname) ==
    CASE tzname = "UTC"        -> 0
      [] tzname = "Asia/Tokyo" -> Hm(9, 0)
      [] OTHER                 -> 0
\* The names timezone_var can hold: two of line 45 and a name pytz rejects,
\* which the read-only combobox (line 301) never writes but a write of the
\* variable can.
UnknownTimezone == "Mars/Olympus"
Timezones == {"UTC", "Asia/Tokyo", UnknownTimezone}

NoMinutes == -1

\* lines 1753-1758: strptime(f"{date} {time}", "%Y-%m-%d %H:%M") accepts.
ParsesDateTime(date_ok, time) ==
    /\ date_ok
    /\ time.hh \in 0..23
    /\ time.mm \in 0..59 \cup {NoMinutes}

\* lines 1755-1761: the UTC time of day of the local date and time.
UtcTime(time, tzname) ==
    LET mm == IF time.mm = NoMinutes THEN 0 ELSE time.mm
    IN  (Hm(time.hh, mm) - UtcOffset(tzname)) % DayMinutes

\* A classifier without the wraparound branch of line 1775.
IsOpen_NoWrap(session, utc_time) ==
    session.start <= utc_time /\ utc_time < session.end

\* lines 1772-1775
IsOpen(session, utc_time) ==
    IF session.start < session.end
    THEN session.start <= utc_time /\ utc_time < session.end
    ELSE utc_time >= session.start \/ utc_time < session.end

\* lines 1771-1777: the names of the open sessions, in table order.
ActiveSessions(utc_time) ==
    LET open == SelectSeq(MARKET_SESSIONS_UTC, LAMBDA s : IsOpen(s, utc_time))
    IN  [i \in 1..Len(open) |-> open[i].name]

\* lines 1779-1782: "A+B" for every j < k, j outermost.
RECURSIVE OverlapsFrom(_, _)
OverlapsFrom(active, j) ==
    IF j >= Len(active) THEN << >>
    ELSE [k \in 1..(Len(active) - j) |-> active[j] \o "+" \o active[j + k]]
         \o OverlapsFrom(active, j + 1)

\* " / ".join(names)
RECURSIVE JoinSlash(_)
JoinSlash(names) ==
    IF Len(names) = 0 THEN ""
    ELSE IF Len(names) = 1 THEN names[1]
    ELSE names[1] \o " / " \o JoinSlash(Tail(names))

\* lines 1769-1790
SessionString(utc_time) ==
    LET active   == ActiveSessions(utc_time)
        overlaps == IF Len(active) > 1 THEN OverlapsFrom(active, 1) ELSE << >>
    IN  IF Len(overlaps) > 0 THEN JoinSlash(overlaps)
        ELSE IF Len(active) > 0 THEN JoinSlash(active)
        ELSE "Closed"

\* lines 1745-1792: the value update_market_session leaves in
\* market_session_var.
update_market_session(date_ok, time, tzname) ==
    IF ~ParsesDateTime(date_ok, time) THEN "Invalid Date/Time"
    ELSE SessionString(UtcTime(time, tzname))

\* What the user can type into the trade-time widget: every hour with the
\* first, the middle and the last minute, one hour and one minute out of
\* range, and a text without minutes.
SessionMinutes == {0, 30, 59}
TimeTexts == [hh : 0..24, mm : SessionMinutes \cup {60, NoMinutes}]

\* lines 428-430: each of the three variables is traced by update_market_session.
EditTradeTime ==
    \E t \in TimeTexts :
        /\ trade_time_var' = t
        /\ market_session_var' = update_market_session(trade_date_ok, t, timezone_var)
        /\ UNCHANGED <<trade_date_ok, timezone_var, formVars, journalVars, playbookVars>>

EditTradeDate ==
    \E ok \in BOOLEAN :
        /\ trade_date_ok' = ok
        /\ market_session_var' = update_market_session(ok, trade_time_var, timezone_var)
        /\ UNCHANGED <<trade_time_var, timezone_var, formVars, journalVars, playbookVars>>

SelectTimezone ==
    \E tz \in Timezones :
        /\ timezone_var' = tz
        /\ market_session_var' = update_market_session(trade_date_ok, trade_time_var, tz)
        /\ UNCHANGED <<trade_date_ok, trade_time_var, formVars, journalVars, playbookVars>>

NextSession ==
    \/ EditTradeTime
    \/ EditTradeDate
    \/ SelectTimezone


(***************************************************************************)
(* Claims about the session classifier (checked under SpecSession).        *)
(***************************************************************************)
\* The UTC time of day of the state, when the widgets hold a date and time.
StateIsValid == ParsesDateTime(trade_date_ok, trade_time_var)
StateUtc ==
    (Hm(trade_time_var.hh, IF trade_time_var.mm = NoMinutes THEN 0 ELSE trade_time_var.mm)
       - (IF timezone_var = "Asia/Tokyo" THEN 540 ELSE 0)) % 1440

\* The session windows as the specification lists them, in minutes:
\* Sydney 21:00-06:00, Tokyo 00:00-09:00, London 08:00-17:00, New York
\* 13:00-22:00, and the open rule of the claim.
ClaimWindow ==
    [Sydney |-> <<1260, 360>>, Tokyo |-> <<0, 540>>,
     London |-> <<480, 1020>>, NewYork |-> <<780, 1320>>]
ClaimOpen(w, t) ==
    IF w[1] < w[2] THEN w[1] <= t /\ t < w[2] ELSE t >= w[1] \/ t < w[2]
ClaimOpenSet(t) ==
    (IF ClaimOpen(ClaimWindow.Sydney, t) THEN {"Sydney"} ELSE {})
    \cup (IF ClaimOpen(ClaimWindow.Tokyo, t) THEN {"Tokyo"} ELSE {})
    \cup (IF ClaimOpen(ClaimWindow.London, t) THEN {"London"} ELSE {})
    \cup (IF ClaimOpen(ClaimWindow.NewYork, t) THEN {"New York"} ELSE {})
TableRank(name) ==
    CASE name = "Sydney" -> 1 [] name = "Tokyo" -> 2
      [] name = "London" -> 3 [] name = "New York" -> 4

\* C6: a session is open iff start <= t < end (start < end) or t >= start or
\* t < end (otherwise); one open session is reported by its name, two by
\* "A+B" in table order, more by all their pairs joined by " / ", none by
\* "Closed"; 09:30 UTC gives "London" and 13:30 UTC "London+New York".
C6_SessionClassifier ==
    StateIsValid =>
        LET open   == ClaimOpenSet(StateUtc)
            active == ActiveSessions(StateUtc)
        IN  /\ {active[i] : i \in 1..Len(active)} = open
            /\ Len(active) = Cardinality(open)
            /\ open = {} => market_session_var = "Closed"
            /\ \A a \in open : open = {a} => market_session_var = a
            /\ \A a, b \in open :
                 (open = {a, b} /\ TableRank(a) < TableRank(b))
                     => market_session_var = a \o "+" \o b
            /\ Cardinality(open) > 2 =>
                 market_session_var = JoinSlash(OverlapsFrom(active, 1))
            /\ StateUtc = 570 => market_session_var = "London"
            /\ StateUtc = 810 => market_session_var = "London+New York"

\* 22:30 typed with the zone Asia/Tokyo, which is 13:30 UTC, shown as the
\* London / New York overlap.
C6_Witness ==
    /\ timezone_var = "Asia/Tokyo" /\ trade_date_ok
    /\ trade_time_var = [hh |-> 22, mm |-> 30]
    /\ market_session_var = "London+New York"

(***************************************************************************)
(* The journal: trades, partial closes, the review popup, the review       *)
(* table and the stats bar.  Pips are in 1/100 pip, lots in 1/10000 lot    *)
(* and money in 1/100000 dollar, so pips * lots * USD_PER_PIP_PER_LOT is   *)
(* in 1/1000000 dollar.                                                    *)
(***************************************************************************)
\* Bounds on the trades of the journal and on the operations of the user
\* on the journal (adding a trade, every operation of the review popup, the
\* balance popup and the File menu) in one run.
MaxTrades == 3
MaxOps == 6

\* lines 828, 914
TERMINAL_OUTCOMES == {"Take Profit Hit", "Stoploss Hit", "Breakeven", "Other"}
\* line 1321
outcome_options == {""} \cup TERMINAL_OUTCOMES

\* lines 68-74: the review of a new trade; its price is the empty text.
DefaultReview ==
    [outcome |-> "", price |-> Txt, notes |-> "", exit_time |-> "",
     max_drawdown_pips |-> ""]

RECURSIVE SumAmount(_)
\* sum(pc.get("amount", 0) for pc in trade.partial_closes)
SumAmount(pcs) ==
    IF Len(pcs) = 0 THEN 0 ELSE pcs[1].amount + SumAmount(Tail(pcs))

RECURSIVE SumPnl(_)
\* lines 824-825, 911-912, 1472-1473
SumPnl(pcs) ==
    IF Len(pcs) = 0 THEN 0 ELSE pcs[1].pnl + SumPnl(Tail(pcs))

\* lines 836-839, 925-928, 1485-1488
PipsMoved(trade_type, entry_price, close_price) ==
    IF trade_type = "Buy"
    THEN ((close_price - entry_price) * PipScale) \div PIP_VALUE_XAUUSD
    ELSE ((entry_price - close_price) * PipScale) \div PIP_VALUE_XAUUSD

\* A pnl that leaves the lots out.
PnlOf_PerPip(pips, lots) ==
    (pips * USD_PER_PIP_PER_LOT) \div ((PipScale * LotScale) \div MoneyScale)

\* pips * lots * USD_PER_PIP_PER_LOT (lines 842, 929, 1172, 1490), in money
\* units.
PnlOf(pips, lots) ==
    (pips * lots * USD_PER_PIP_PER_LOT) \div ((PipScale * LotScale) \div MoneyScale)

\* lines 832-833, 921-922, 1481-1482
RemainingLotSize(trade) ==
    trade.info.lot_size - SumAmount(trade.partial_closes)

\* lines 835-842: the final leg of a trade whose close price is a number.
FinalLeg(trade) ==
    IF RemainingLotSize(trade) > 0
    THEN PnlOf(PipsMoved(trade.info.trade_type, trade.info.entry_price,
                         trade.review.price.val),
               RemainingLotSize(trade))
    ELSE 0

\* A row whose total has the final leg whatever the outcome is.
TreeRow_LegForAnyOutcome(trade) ==
    LET partial == SumPnl(trade.partial_closes)
    IN  IF trade.review.price.num
        THEN LET total == partial + FinalLeg(trade)
             IN  [total_pnl_for_display |-> total,
                  win_loss_status |-> IF total > 0 THEN "Win"
                                      ELSE IF total < 0 THEN "Loss"
                                      ELSE "Breakeven"]
        ELSE [total_pnl_for_display |-> partial, win_loss_status |-> "Open"]

\* lines 815-854: one row of the review table (the P&L and status columns).
TreeRow(trade) ==
    LET partial == SumPnl(trade.partial_closes)
    IN  IF trade.review.outcome \in TERMINAL_OUTCOMES /\ trade.review.price.num
        THEN LET total == partial + FinalLeg(trade)
             IN  [total_pnl_for_display |-> total,
                  win_loss_status |-> IF total > 0 THEN "Win"
                                      ELSE IF total < 0 THEN "Loss"
                                      ELSE "Breakeven"]
        ELSE [total_pnl_for_display |-> partial, win_loss_status |-> "Open"]

\* lines 811-905
refresh_trades_tree(ts) == [i \in 1..Len(ts) |-> TreeRow(ts[i])]

\* A realized P&L that leaves the partial closes out.
RealizedPnl_FinalLegOnly(trade) ==
    IF trade.review.outcome \in TERMINAL_OUTCOMES /\ trade.review.price.num
    THEN FinalLeg(trade) ELSE 0

\* lines 910-931: what one trade adds to the realized P&L.
RealizedPnl(trade) ==
    SumPnl(trade.partial_closes)
    + (IF trade.review.outcome \in TERMINAL_OUTCOMES /\ trade.review.price.num
       THEN FinalLeg(trade) ELSE 0)

RECURSIVE TotalRealizedPnl(_)
TotalRealizedPnl(ts) ==
    IF Len(ts) = 0 THEN 0 ELSE RealizedPnl(ts[1]) + TotalRealizedPnl(Tail(ts))

\* Python's round(n / d) for n >= 0, d > 0: to the nearest integer, a tie
\* to the even one.
RoundHalfEven(n, d) ==
    LET q == n \div d
        r == n % d
    IN  IF 2 * r < d THEN q
        ELSE IF 2 * r > d THEN q + 1
        ELSE IF q % 2 = 0 THEN q ELSE q + 1

\* A win rate rounded up instead of to the nearest integer.
WinRate_RoundedUp(wins, total) ==
    IF total > 0 THEN (100 * wins + total - 1) \div total ELSE 0

\* line 935
WinRate(wins, total) ==
    IF total > 0 THEN RoundHalfEven(100 * wins, total) ELSE 0

\* lines 933-934: outcome.lower() == name.
CountOutcome(ts, lowered) ==
    LET lower(o) == CASE o = "Take Profit Hit" -> "take profit hit"
                      [] o = "Stoploss Hit"    -> "stoploss hit"
                      [] o = "Breakeven"       -> "breakeven"
                      [] o = "Other"           -> "other"
                      [] OTHER                 -> o
    IN  Cardinality({i \in 1..Len(ts) : lower(ts[i].review.outcome) = lowered})

\* lines 907-937
update_stats_bar(ts) ==
    LET total  == Len(ts)
        wins   == CountOutcome(ts, "take profit hit")
        losses == CountOutcome(ts, "stoploss hit")
    IN  [total |-> total, wins |-> wins, losses |-> losses,
         wr |-> WinRate(wins, total),
         total_realized_pnl |-> TotalRealizedPnl(ts)]

\* A dict is a function on its keys; {} is the one with no key.
EmptyDict == << >>
\* d.get(key, default)
Get(d, key, default) == IF key \in DOMAIN d THEN d[key] ELSE default
\* {**a, **b} (line 99)
Merge(a, b) ==
    [key \in DOMAIN a \cup DOMAIN b |-> IF key \in DOMAIN b THEN b[key] ELSE a[key]]
\* lines 59-76: Trade(symbol, timeframe, info, tf_screenshots, review,
\* partial_closes, sl_to_be), a falsy argument replaced by its default.
Trade(symbol, timeframe, info, tf_screenshots, review, partial_closes, sl_to_be) ==
    [symbol |-> symbol,
     timeframe |-> timeframe,
     info |-> info,
     tf_screenshots |-> IF DOMAIN tf_screenshots = {}
                        THEN DefaultScreenshots ELSE tf_screenshots,
     review |-> IF DOMAIN review = {} THEN DefaultReview ELSE review,
     partial_closes |-> partial_closes,
     sl_to_be |-> sl_to_be]

\* A to_dict that leaves sl_to_be out.
to_dict_NoSlToBe(trade) ==
    [symbol |-> trade.symbol,
     timeframe |-> trade.timeframe,
     info |-> trade.info,
     tf_screenshots |-> trade.tf_screenshots,
     review |-> trade.review,
     partial_closes |-> trade.partial_closes]

\* lines 78-87
to_dict(trade) ==
    [symbol |-> trade.symbol,
     timeframe |-> trade.timeframe,
     info |-> trade.info,
     tf_screenshots |-> trade.tf_screenshots,
     review |-> trade.review,
     partial_closes |-> trade.partial_closes,
     sl_to_be |-> trade.sl_to_be]

\* lines 106-114: the three timeframes and both slots of each are there
\* afterwards; what the file holds beyond them stays.
NormalizeScreenshots(tf_screenshots_data) ==
    [tf \in DOMAIN tf_screenshots_data \cup {"D1", "H4", "H1"} |->
        IF tf \notin DOMAIN tf_screenshots_data
        THEN DefaultScreenshots[tf]
        ELSE Merge([before |-> None, after |-> None], tf_screenshots_data[tf])]

\* A dict without one of its keys: pc.pop(key, None).
Pop(d, key) == [k \in DOMAIN d \ {key} |-> d[k]]

\* A normalization that always drops the legacy notes key.
NormalizePartialClose_DropNotes(pc) ==
    LET pc1 == Merge([pips |-> 0], pc)
        pc2 == IF "reason_for_close" \in DOMAIN pc1 THEN Pop(pc1, "notes")
               ELSE Pop(Merge(pc1, [reason_for_close |->
                        IF "notes" \in DOMAIN pc1 /\ pc1["notes"] # None
                        THEN pc1["notes"] ELSE ""]), "notes")
    IN  Merge([pnl |-> 0], pc2)

\* lines 117-125: pips and pnl backfilled with 0.0; a missing
\* reason_for_close taken from the legacy notes, which are then dropped.
NormalizePartialClose(pc) ==
    LET pc1 == Merge([pips |-> 0], pc)
        pc2 == IF "reason_for_close" \in DOMAIN pc1 THEN pc1
               ELSE Pop(Merge(pc1, [reason_for_close |->
                        IF "notes" \in DOMAIN pc1 /\ pc1["notes"] # None
                        THEN pc1["notes"] ELSE ""]), "notes")
    IN  Merge([pnl |-> 0], pc2)

\* lines 89-137
from_dict(d) ==
    LET review_data == Merge(DefaultReview, Get(d, "review", EmptyDict))
        tf_screenshots_data == NormalizeScreenshots(Get(d, "tf_screenshots", EmptyDict))
        partial_closes_file == Get(d, "partial_closes", << >>)
        partial_closes_data ==
            [i \in 1..Len(partial_closes_file) |->
                NormalizePartialClose(partial_closes_file[i])]
    IN  Trade(Get(d, "symbol", ""), Get(d, "timeframe", ""),
              Get(d, "info", EmptyDict), tf_screenshots_data, review_data,
              partial_closes_data, Get(d, "sl_to_be", FALSE))

\* The journal file before the first save (line 771: it does not exist).
NoJournalFile == [exists |-> FALSE, malformed |-> FALSE, data |-> EmptyDict]

\* A journal file that json.load rejects.
MalformedJournalFile == [exists |-> TRUE, malformed |-> TRUE, data |-> EmptyDict]

\* lines 759-766: json writes floats, strings, booleans, None, lists and
\* dicts with string keys so that json.load gives them back as they were.
save_trades(ts, balance) ==
    [exists |-> TRUE, malformed |-> FALSE,
     data |-> [trades |-> [i \in 1..Len(ts) |-> to_dict(ts[i])],
               account_balance |-> balance]]


\* What add_trade reads from the entry form (lines 701-724): a filled-in
\* Buy and a filled-in Sell, stop loss 50 pips and take profit 100 pips away.
FormSnapshots ==
    { [trade_type |-> "Buy",  entry_price |-> 2300 * PriceScale,
       lot_size |-> 1 * LotScale,
       sl_price |-> 2295 * PriceScale, tp_price |-> 2310 * PriceScale],
      [trade_type |-> "Sell", entry_price |-> 2300 * PriceScale,
       lot_size |-> 1 * LotScale,
       sl_price |-> 2305 * PriceScale, tp_price |-> 2290 * PriceScale] }

\* lines 701-728: the trade add_trade appends.
NewTrade(snapshot, balance) ==
    Trade("XAUUSD", "1h",
          [trade_type |-> snapshot.trade_type,
           entry_price |-> snapshot.entry_price,
           lot_size |-> snapshot.lot_size,
           sl_price |-> snapshot.sl_price,
           tp_price |-> snapshot.tp_price,
           account_balance |-> balance],
          DefaultScreenshots, EmptyDict, << >>, FALSE)

\* Screenshots of the new trade that are the dicts of the form themselves,
\* seen after lines 752-757 have set every slot of the form to None.
tf_shots_Shared(tf_screenshots) == DefaultScreenshots

\* line 726: {k: v.copy() for k, v in self.tf_screenshots.items()}, the
\* trade's own dicts, which later writes to those of the form do not reach.
tf_shots(tf_screenshots) ==
    [k \in DOMAIN tf_screenshots |->
        [when \in DOMAIN tf_screenshots[k] |-> tf_screenshots[k][when]]]

\* f"{price:.2f}" (lines 1234-1240): the text of a price with two decimals.
Format2f(price, up) == Num(Round2(price, up))

NoPopup ==
    [open |-> FALSE, idx |-> 0, outcome_var |-> "", close_price_var |-> Txt,
     price_state |-> "readonly", max_drawdown_pips_var |-> Txt,
     max_drawdown_usd_var |-> Txt, max_drawdown_price_var |-> Txt]

(***************************************************************************)
(* The three max-drawdown widgets of the review popup (lines 1218-1220).   *)
(* Here Txt is the empty text, which the handlers read as 0.0, and Garbage *)
(* a text that is not empty and that float() rejects.                      *)
(***************************************************************************)
Garbage == [num |-> FALSE, val |-> 1]

\* float(s) if s else 0.0, and float(var.get() or 0.0): whether it returns.
Parses(text) == text.num \/ text = Txt
FloatOrZero(text) == IF text.num THEN text.val ELSE 0

\* f"${mdd_usd:,.2f}" (line 1264): an amount of money with two decimals.
FormatUsd(money, up) == Num(RoundTo(money, MoneyScale \div 100, up))

\* lines 1289-1294: the adverse distance from the entry in pips, not below 0.
AdversePips(info, mdd_price) ==
    LET pips == IF info.trade_type = "Buy"
                THEN ((info.entry_price - mdd_price) * PipScale) \div PIP_VALUE_XAUUSD
                ELSE ((mdd_price - info.entry_price) * PipScale) \div PIP_VALUE_XAUUSD
    IN  IF pips < 0 THEN 0 ELSE pips

\* lines 1304-1319; it runs inside _update_mdd_usd_from_pips, so the trace
\* of the price it writes returns at the guard of line 1273.
update_mdd_price_from_pips_internal(p, info, up) ==
    IF ~Parses(p.max_drawdown_pips_var)
    THEN [p EXCEPT !.max_drawdown_price_var = Txt]
    ELSE LET mdd_pips == FloatOrZero(p.max_drawdown_pips_var)
             mdd_price == IF info.trade_type = "Buy"
                          THEN info.entry_price - (mdd_pips * PIP_VALUE_XAUUSD) \div PipScale
                          ELSE info.entry_price + (mdd_pips * PIP_VALUE_XAUUSD) \div PipScale
         IN  IF ~Parses(p.max_drawdown_price_var)
             THEN [p EXCEPT !.max_drawdown_price_var = Txt]
             ELSE IF FloatOrZero(p.max_drawdown_price_var) # mdd_price
             THEN [p EXCEPT !.max_drawdown_price_var = Format2f(mdd_price, up)]
             ELSE p

\* lines 1253-1270; mdd_is_updating is the flag as the call finds it.
update_mdd_usd_from_pips(p, info, up, mdd_is_updating) ==
    IF mdd_is_updating THEN p
    ELSE IF ~Parses(p.max_drawdown_pips_var)
    THEN [p EXCEPT !.max_drawdown_usd_var = Txt, !.max_drawdown_price_var = Txt]
    ELSE update_mdd_price_from_pips_internal(
             [p EXCEPT !.max_drawdown_usd_var =
                  FormatUsd(PnlOf(FloatOrZero(p.max_drawdown_pips_var),
                                  info.lot_size), up)],
             info, up)

\* lines 1272-1302; the flag is set when line 1299 calls the dollars
\* handler, and when the traces of the pips it writes run.
update_mdd_pips_from_price(p, info, up, mdd_is_updating) ==
    IF mdd_is_updating THEN p
    ELSE IF ~Parses(p.max_drawdown_price_var) \/ info.entry_price = 0
    THEN [p EXCEPT !.max_drawdown_pips_var = Txt, !.max_drawdown_usd_var = Txt]
    ELSE LET pips == AdversePips(info, FloatOrZero(p.max_drawdown_price_var))
         IN  IF ~Parses(p.max_drawdown_pips_var)
             THEN [p EXCEPT !.max_drawdown_pips_var = Txt,
                            !.max_drawdown_usd_var = Txt]
             ELSE update_mdd_usd_from_pips(
                      IF FloatOrZero(p.max_drawdown_pips_var) # pips
                      THEN [p EXCEPT !.max_drawdown_pips_var =
                                Num(RoundTo(pips, PipScale \div 10, up))]
                      ELSE p,
                      info, up, TRUE)

\* lines 1224-1249; a close-price text that is a number is never "0.0" here,
\* so that the two branches that clear "0.0" leave it as it is.
sync_price_field(p, info, up) ==
    CASE p.outcome_var = "Take Profit Hit" ->
           [p EXCEPT !.close_price_var = Format2f(info.tp_price, up),
                     !.price_state = "readonly"]
      [] p.outcome_var = "Stoploss Hit" ->
           [p EXCEPT !.close_price_var = Format2f(info.sl_price, up),
                     !.price_state = "readonly"]
      [] p.outcome_var = "Breakeven" ->
           [p EXCEPT !.close_price_var = Format2f(info.entry_price, up),
                     !.price_state = "readonly"]
      [] p.outcome_var = "Other" -> [p EXCEPT !.price_state = "normal"]
      [] OTHER -> [p EXCEPT !.price_state = "readonly"]

\* lines 1102-1121 with the price widget at its initial 0.0: the price that
\* typing pips into the partial-close row leaves in the price widget.
PartialPriceFromPips(trade_type, entry_price, pips, up) ==
    LET new_price == IF trade_type = "Buy"
                     THEN entry_price + (pips * PIP_VALUE_XAUUSD) \div PipScale
                     ELSE entry_price - (pips * PIP_VALUE_XAUUSD) \div PipScale
    IN  IF new_price # 0 THEN Round2(new_price, up) ELSE 0

\* What the user leaves in the amount widget and types into the pips widget
\* of the partial-close row, and the reason chosen.
PartialAmounts == {Num(0), Num(1), Num(LotScale), Txt}
PartialPips == {Num(50 * PipScale)}
PartialReasons == {"", "Other"}
\* What the user types as the final close price when the outcome is "Other".
ClosePrices == {Num(2310 * PriceScale), Txt}

\* The ghost record of the last operation when it was the close-trade
\* action: the trade, and the balance and the review it started from.
NoClose ==
    [closed |-> FALSE, idx |-> 0, balance_before |-> 0,
     review_before |-> DefaultReview, sl_to_be_before |-> FALSE,
     op |-> "", input |-> EmptyDict]
LastClose(idx) ==
    [closed |-> TRUE, idx |-> idx, balance_before |-> account_balance_var,
     review_before |-> trades[idx].review,
     sl_to_be_before |-> trades[idx].sl_to_be,
     op |-> "close", input |-> EmptyDict]
\* The ghost record of an operation that is not the close-trade action,
\* with what the user had entered.
LastOp(op, input) == [NoClose EXCEPT !.op = op, !.input = input]

\* The ghost record of the run: how often the close-trade action was
\* invoked on each trade of the list, and whether up to now no trade was
\* closed twice, no partial close was added to a closed trade and the
\* balance was neither overridden nor loaded.
NoHistory == [closes |-> << >>, ok |-> TRUE]
NextHistory ==
    CASE last'.op = "load" ->
           [closes |-> [i \in 1..Len(trades') |-> 0], ok |-> FALSE]
      [] last'.op = "close" ->
           [closes |-> [history.closes EXCEPT ![last'.idx] = @ + 1],
            ok |-> history.ok /\ history.closes[last'.idx] = 0]
      [] last'.op = "partial" ->
           [history EXCEPT !.ok = @ /\ (trades' = trades
                                        \/ history.closes[last'.input.idx] = 0)]
      [] last'.op = "balance" ->
           [history EXCEPT !.ok = @ /\ ~last'.input.new_bal.num]
      [] Len(trades') > Len(trades) ->
           [history EXCEPT !.closes = Append(@, 0)]
      [] OTHER -> history

\* lines 734-750: the entry form set back field by field, each write with
\* its trace callback, and synchronised once more.
ResetForm(f, up) ==
    LET f1 == sync_all_sl_tp([f EXCEPT !.trade_type = "Buy"], up)
        f2 == WriteEntryPrice(f1, Num(0), up)
        f3 == sync_all_sl_tp([f2 EXCEPT !.lot_size = Num(0)], up)
        f4 == WriteSlPrice(WriteSlPips(f3, Num(0), up), Num(0), up)
        f5 == WriteTpPrice(WriteTpPips(f4, Num(0), up), Num(0), up)
    IN  Fresh(sync_all_sl_tp(f5, up))

\* lines 697-757.  The snapshot is the entry form as the user has filled it
\* in before pressing Add Trade; the date and time widgets are set to the
\* time of the start again.
add_trade ==
    /\ mainloop = "running"
    /\ nops < MaxOps
    /\ nops' = nops + 1
    /\ UNCHANGED <<mainloop, journal_backup>>
    /\ ~popup.open
    /\ Len(trades) < MaxTrades
    /\ \E snapshot \in FormSnapshots :
         LET trade == [NewTrade(snapshot, account_balance_var)
                          EXCEPT !.tf_screenshots = tf_shots(form.tf_screenshots)]
             ts == Append(trades, trade)
         IN  /\ trades' = ts
             /\ journal_file' = save_trades(ts, account_balance_var)
             /\ trades_tree' = refresh_trades_tree(ts)
             /\ trade_stats_var' = update_stats_bar(ts)
             /\ last' = LastOp("add", [snapshot |-> snapshot,
                                       tf_screenshots |-> form.tf_screenshots])
    /\ \E up \in Ties :
         form' = [ResetForm(form, up) EXCEPT !.tf_screenshots = DefaultScreenshots]
    /\ messagebox' = ""
    /\ UNCHANGED <<account_balance_var, popup, edited, nedits, sessionVars, playbookVars>>
    /\ history' = NextHistory

\* The slot of the entry form whose Attach button is pressed.
FormScreenshotSlots == {<<"D1", "before">>}

\* lines 687-695: a screenshot attached on the entry form; the file dialog
\* returns "" when it is cancelled.
attach_tf_img ==
    /\ mainloop = "running"
    /\ nops < MaxOps
    /\ nops' = nops + 1
    /\ ~popup.open
    /\ \E slot \in FormScreenshotSlots, path \in {"", "setup.png"} :
         /\ form' = IF path # ""
                    THEN [form EXCEPT !.tf_screenshots[slot[1]][slot[2]] = path]
                    ELSE form
         /\ last' = LastOp("attach", [path |-> path])
    /\ messagebox' = ""
    /\ UNCHANGED <<trades, account_balance_var, journal_file, trades_tree,
                   trade_stats_var, popup, mainloop, journal_backup, edited,
                   nedits, sessionVars, playbookVars>>
    /\ history' = NextHistory

\* lines 946-1407: the popup of the selected row; it grabs the input.  The
\* max-drawdown pips start from the review's text, which is empty.
open_review_popup ==
    /\ mainloop = "running"
    /\ nops < MaxOps
    /\ nops' = nops + 1
    /\ UNCHANGED <<mainloop, journal_backup>>
    /\ ~popup.open
    /\ \E idx \in 1..Len(trades), up \in Ties :
         /\ popup' = update_mdd_usd_from_pips(
                        sync_price_field(
                            [open |-> TRUE, idx |-> idx,
                             outcome_var |-> trades[idx].review.outcome,
                             close_price_var |-> trades[idx].review.price,
                             price_state |-> "normal",
                             max_drawdown_pips_var |-> Txt,
                             max_drawdown_usd_var |-> Txt,
                             max_drawdown_price_var |-> Txt],
                            trades[idx].info, up),
                        trades[idx].info, up, FALSE)
         /\ last' = NoClose
    /\ messagebox' = ""
    /\ UNCHANGED <<trades, account_balance_var, journal_file, trades_tree,
                   trade_stats_var, formVars, sessionVars, playbookVars>>
    /\ history' = NextHistory

\* The outcome combobox (lines 1321-1326) with its trace (line 1400).
SelectOutcome ==
    /\ mainloop = "running"
    /\ nops < MaxOps
    /\ nops' = nops + 1
    /\ UNCHANGED <<mainloop, journal_backup>>
    /\ popup.open
    /\ \E outcome \in outcome_options, up \in Ties :
         popup' = sync_price_field([popup EXCEPT !.outcome_var = outcome],
                                   trades[popup.idx].info, up)
    /\ messagebox' = ""
    /\ last' = NoClose
    /\ UNCHANGED <<trades, account_balance_var, journal_file, trades_tree,
                   trade_stats_var, formVars, sessionVars, playbookVars>>
    /\ history' = NextHistory

\* The final-close-price entry (lines 1329-1331), when it is not read-only.
TypeClosePrice ==
    /\ mainloop = "running"
    /\ nops < MaxOps
    /\ nops' = nops + 1
    /\ UNCHANGED <<mainloop, journal_backup>>
    /\ popup.open
    /\ popup.price_state = "normal"
    /\ \E price \in ClosePrices : popup' = [popup EXCEPT !.close_price_var = price]
    /\ messagebox' = ""
    /\ last' = NoClose
    /\ UNCHANGED <<trades, account_balance_var, journal_file, trades_tree,
                   trade_stats_var, formVars, sessionVars, playbookVars>>
    /\ history' = NextHistory

\* An append that puts the new entry first.
append_AtFront(partial_closes, new_partial) == <<new_partial>> \o partial_closes

\* trade.partial_closes.append(new_partial) (line 1182)
append(partial_closes, new_partial) == Append(partial_closes, new_partial)

\* lines 1152-1203, for one content of the partial-close row: amount, the
\* pips typed (or the pips and price widgets left at 0.0), and the reason.
add_partial_close_entry ==
    /\ mainloop = "running"
    /\ nops < MaxOps
    /\ nops' = nops + 1
    /\ UNCHANGED <<mainloop, journal_backup>>
    /\ popup.open
    /\ \E amount \in PartialAmounts, typed \in PartialPips \cup {Txt},
          reason_for_close \in PartialReasons, up \in Ties :
         LET trade == trades[popup.idx]
             pips  == IF typed.num THEN typed.val ELSE 0
             price == IF typed.num
                      THEN PartialPriceFromPips(trade.info.trade_type,
                                                trade.info.entry_price, pips, up)
                      ELSE 0
             current_remaining == trade.info.lot_size - SumAmount(trade.partial_closes)
             new_partial == [timestamp |-> "now",
                             amount |-> amount.val, price |-> price, pips |-> pips,
                             reason_for_close |-> reason_for_close,
                             pnl |-> PnlOf(pips, amount.val)]
             ts == [trades EXCEPT ![popup.idx].partial_closes = append(@, new_partial)]
         IN  /\ last' = LastOp("partial", [idx |-> popup.idx, amount |-> amount,
                                            price |-> price, pips |-> pips,
                                            reason_for_close |-> reason_for_close])
             /\ IF ~amount.num
                 THEN /\ messagebox' = "Error"
                      /\ UNCHANGED <<trades, journal_file, trades_tree, trade_stats_var>>
                 ELSE IF amount.val <= 0 \/ (price = 0 /\ pips = 0)
                 THEN /\ messagebox' = "Invalid Input"
                      /\ UNCHANGED <<trades, journal_file, trades_tree, trade_stats_var>>
                 ELSE IF amount.val > current_remaining + LOT_TOLERANCE
                 THEN /\ messagebox' = "Invalid Input"
                      /\ UNCHANGED <<trades, journal_file, trades_tree, trade_stats_var>>
                 ELSE IF reason_for_close = ""
                 THEN /\ messagebox' = "Missing Information"
                      /\ UNCHANGED <<trades, journal_file, trades_tree, trade_stats_var>>
                 ELSE /\ trades' = ts
                      /\ journal_file' = save_trades(ts, account_balance_var)
                      /\ trades_tree' = refresh_trades_tree(ts)
                      /\ trade_stats_var' = update_stats_bar(ts)
                      /\ messagebox' = "Partial Close Added"
    /\ UNCHANGED <<account_balance_var, popup, formVars, sessionVars, playbookVars>>
    /\ history' = NextHistory

\* A final P&L without the final leg.
FinalPnl_PartialsOnly(trade) == SumPnl(trade.partial_closes)

\* lines 1470-1494: final_pnl of a trade whose review has been written.
FinalPnl(trade) ==
    SumPnl(trade.partial_closes)
    + (IF trade.review.price.num THEN FinalLeg(trade) ELSE 0)

\* lines 1461-1501; the write of account_balance_var runs its trace
\* sync_all_sl_tp (line 426) on the entry form.
close_trade_update_balance ==
    /\ mainloop = "running"
    /\ nops < MaxOps
    /\ nops' = nops + 1
    /\ UNCHANGED <<mainloop, journal_backup>>
    /\ popup.open
    /\ \E sl_to_be \in BOOLEAN :
       LET review == [outcome |-> popup.outcome_var, price |-> popup.close_price_var,
                      notes |-> "", exit_time |-> "", max_drawdown_pips |-> ""]
           ts == [trades EXCEPT ![popup.idx].review = review,
                                ![popup.idx].sl_to_be = sl_to_be]
           balance == account_balance_var + FinalPnl(ts[popup.idx])
       IN  /\ trades' = ts
           /\ account_balance_var' = balance
           /\ journal_file' = save_trades(ts, balance)
           /\ trades_tree' = refresh_trades_tree(ts)
           /\ trade_stats_var' = update_stats_bar(ts)
           /\ messagebox' = IF review.price.num THEN "" ELSE "Calculation Warning"
    /\ \E up \in Ties : form' = Fresh(sync_all_sl_tp(form, up))
    /\ last' = LastClose(popup.idx)
    /\ popup' = NoPopup
    /\ UNCHANGED <<edited, nedits, sessionVars, playbookVars>>
    /\ history' = NextHistory

\* line 1504: the Cancel button.
CancelPopup ==
    /\ mainloop = "running"
    /\ nops < MaxOps
    /\ nops' = nops + 1
    /\ UNCHANGED <<mainloop, journal_backup>>
    /\ popup.open
    /\ popup' = NoPopup
    /\ messagebox' = ""
    /\ last' = NoClose
    /\ UNCHANGED <<trades, account_balance_var, journal_file, trades_tree,
                   trade_stats_var, formVars, sessionVars, playbookVars>>
    /\ history' = NextHistory

\* The slot of the popup whose Edit button is pressed, and what the file
\* dialog returns: "" when it is cancelled.
ScreenshotSlots == {<<"D1", "before">>, <<"H1", "after">>}
ScreenshotPaths == {"", "chart.png"}

\* lines 1524-1534, for the trade of the popup.
edit_tf_img ==
    /\ mainloop = "running"
    /\ nops < MaxOps
    /\ nops' = nops + 1
    /\ popup.open
    /\ \E slot \in ScreenshotSlots, path \in ScreenshotPaths :
         LET tf == slot[1]
             when == slot[2]
             ts == [trades EXCEPT ![popup.idx].tf_screenshots[tf][when] = path]
         IN  /\ last' = LastOp("screenshot", [idx |-> popup.idx, path |-> path])
             /\ IF path # ""
                THEN /\ trades' = ts
                     /\ journal_file' = save_trades(ts, account_balance_var)
                ELSE UNCHANGED <<trades, journal_file>>
    /\ messagebox' = ""
    /\ UNCHANGED <<account_balance_var, trades_tree, trade_stats_var, popup,
                   mainloop, journal_backup, formVars, sessionVars, playbookVars>>
    /\ history' = NextHistory

\* What the user types into the max-drawdown price and pips entries: prices
\* below and above the entry price of 2300.00, one with three decimals, the
\* empty text and a text that is not a number.
MddPrices == {Num(2299 * PriceScale), Num(2301500), Num(2299375), Txt, Garbage}
MddPips == {Num(10 * PipScale), Num(750), Txt, Garbage}

\* The max-drawdown price entry (lines 1357-1359) with its trace (line 1403).
EditMaxDrawdownPrice ==
    /\ mainloop = "running"
    /\ popup.open
    /\ \E text \in MddPrices, up \in Ties :
         /\ popup' = update_mdd_pips_from_price(
                        [popup EXCEPT !.max_drawdown_price_var = text],
                        trades[popup.idx].info, up, FALSE)
         /\ last' = LastOp("mdd_price", [text |-> text, before |-> popup])
    /\ messagebox' = ""
    /\ UNCHANGED <<trades, account_balance_var, journal_file, trades_tree,
                   trade_stats_var, nops, mainloop, journal_backup, formVars,
                   sessionVars, playbookVars>>
    /\ history' = NextHistory

\* The max-drawdown pips entry (lines 1349-1351) with its trace (line 1402).
EditMaxDrawdownPips ==
    /\ mainloop = "running"
    /\ popup.open
    /\ \E text \in MddPips, up \in Ties :
         /\ popup' = update_mdd_usd_from_pips(
                        [popup EXCEPT !.max_drawdown_pips_var = text],
                        trades[popup.idx].info, up, FALSE)
         /\ last' = LastOp("mdd_pips", [text |-> text, before |-> popup])
    /\ messagebox' = ""
    /\ UNCHANGED <<trades, account_balance_var, journal_file, trades_tree,
                   trade_stats_var, nops, mainloop, journal_backup, formVars,
                   sessionVars, playbookVars>>
    /\ history' = NextHistory

\* The review popup of one trade, with its max-drawdown entries.
NextReview ==
    \/ EditMaxDrawdownPrice
    \/ EditMaxDrawdownPips

\* What the entry of the Update Balance popup holds when Update is pressed.
BalanceTexts == {Num(5000 * MoneyScale), Txt}

\* lines 1608-1629: the Update Balance popup, with update_and_close; the
\* write of account_balance_var runs its trace (line 426) on the entry form.
update_and_close ==
    /\ mainloop = "running"
    /\ nops < MaxOps
    /\ nops' = nops + 1
    /\ ~popup.open
    /\ \E new_bal_var \in BalanceTexts, up \in Ties :
         /\ last' = [LastOp("balance", [new_bal |-> new_bal_var])
                        EXCEPT !.balance_before = account_balance_var]
         /\ IF new_bal_var.num
            THEN /\ account_balance_var' = new_bal_var.val
                 /\ form' = Fresh(sync_all_sl_tp(form, up))
                 /\ edited' = NoEdit
                 /\ messagebox' = ""
            ELSE /\ messagebox' = "Invalid Input"
                 /\ UNCHANGED <<account_balance_var, form, edited>>
    /\ UNCHANGED <<trades, journal_file, trades_tree, trade_stats_var, popup,
                   mainloop, journal_backup, nedits, sessionVars,
                   playbookVars>>
    /\ history' = NextHistory

\* File > Save that also puts the balance back to the default.
MenuSave_ResetsBalance ==
    /\ mainloop = "running"
    /\ nops < MaxOps
    /\ nops' = nops + 1
    /\ ~popup.open
    /\ account_balance_var' = DEFAULT_BALANCE
    /\ journal_file' = save_trades(trades, DEFAULT_BALANCE)
    /\ messagebox' = ""
    /\ last' = LastOp("save", EmptyDict)
    /\ UNCHANGED <<trades, trades_tree, trade_stats_var,
                   popup, mainloop, journal_backup, formVars, sessionVars,
                   playbookVars>>
    /\ history' = NextHistory

\* line 187: File > Save.
MenuSave ==
    /\ mainloop = "running"
    /\ nops < MaxOps
    /\ nops' = nops + 1
    /\ ~popup.open
    /\ journal_file' = save_trades(trades, account_balance_var)
    /\ messagebox' = ""
    /\ last' = LastOp("save", EmptyDict)
    /\ UNCHANGED <<trades, account_balance_var, trades_tree, trade_stats_var,
                   popup, mainloop, journal_backup, formVars, sessionVars,
                   playbookVars>>
    /\ history' = NextHistory

\* lines 770-809.  starting: the call of line 193, in the constructor and
\* before app.mainloop() (line 1796), where quit() has no effect: mainloop()
\* clears the quit flag when it starts, and the window runs; otherwise the
\* call of File > Load (line 188), where quit() ends the main loop.
\* response is the answer to "Corrupted Journal File".
load_trades(starting) ==
    /\ nops < MaxOps
    /\ nops' = nops + 1
    /\ ~popup.open
    /\ \E response \in BOOLEAN, up \in Ties :
         /\ last' = [LastOp("load", [response |-> response, starting |-> starting])
                        EXCEPT !.balance_before = account_balance_var]
         /\ IF ~journal_file.exists
            THEN /\ trades' = << >>
                 /\ account_balance_var' = DEFAULT_BALANCE
                 /\ trades_tree' = refresh_trades_tree(<< >>)
                 /\ trade_stats_var' = update_stats_bar(<< >>)
                 /\ form' = Fresh(sync_all_sl_tp(form, up))
                 /\ messagebox' = ""
                 /\ mainloop' = "running"
                 /\ UNCHANGED <<journal_file, journal_backup>>
            ELSE IF ~journal_file.malformed
            THEN LET data == journal_file.data
                     file_trades == Get(data, "trades", << >>)
                     ts == [i \in 1..Len(file_trades) |-> from_dict(file_trades[i])]
                 IN  /\ trades' = ts
                     /\ account_balance_var' = Get(data, "account_balance", DEFAULT_BALANCE)
                     /\ trades_tree' = refresh_trades_tree(ts)
                     /\ trade_stats_var' = update_stats_bar(ts)
                     /\ form' = Fresh(sync_all_sl_tp(form, up))
                     /\ messagebox' = ""
                     /\ mainloop' = "running"
                     /\ UNCHANGED <<journal_file, journal_backup>>
            ELSE IF response
            THEN /\ journal_backup' = TRUE
                 /\ trades' = << >>
                 /\ account_balance_var' = DEFAULT_BALANCE
                 /\ trades_tree' = refresh_trades_tree(<< >>)
                 /\ trade_stats_var' = update_stats_bar(<< >>)
                 /\ form' = Fresh(sync_all_sl_tp(form, up))
                 /\ journal_file' = save_trades(<< >>, DEFAULT_BALANCE)
                 /\ messagebox' = "Backup Created"
                 /\ mainloop' = "running"
            ELSE /\ mainloop' = IF starting THEN "running" ELSE "quit"
                 /\ messagebox' = ""
                 /\ UNCHANGED <<trades, account_balance_var, trades_tree,
                                trade_stats_var, form, journal_file, journal_backup>>
    /\ UNCHANGED <<popup, edited, nedits, sessionVars, playbookVars>>
    /\ history' = NextHistory

\* A partial close as older versions wrote it: no pips, no pnl, and the
\* reason under the key notes.
LegacyPartialClose ==
    [timestamp |-> "then", amount |-> LotScale \div 4,
     price |-> 2305 * PriceScale, notes |-> "abc"]
\* One that has the reason under both keys.
BothKeysPartialClose ==
    [timestamp |-> "then", amount |-> LotScale \div 4,
     price |-> 2305 * PriceScale, pips |-> 50 * PipScale,
     pnl |-> PnlOf(50 * PipScale, LotScale \div 4),
     reason_for_close |-> "Other", notes |-> "old"]
\* One whose notes are null.
NullNotesPartialClose ==
    [timestamp |-> "then", amount |-> LotScale \div 4,
     price |-> 2305 * PriceScale, pips |-> 50 * PipScale, notes |-> None]
\* One as add_partial_close_entry writes it (lines 1174-1181).
CurrentPartialClose ==
    [timestamp |-> "then", amount |-> LotScale \div 4,
     price |-> 2305 * PriceScale, pips |-> 50 * PipScale,
     reason_for_close |-> "Other",
     pnl |-> PnlOf(50 * PipScale, LotScale \div 4)]

\* A trade record of an older version: no timeframe, no review, no
\* sl_to_be, one screenshot slot only.
LegacyTradeRecord ==
    [symbol |-> "XAUUSD",
     info |-> [trade_type |-> "Buy", entry_price |-> 2300 * PriceScale,
               lot_size |-> 1 * LotScale, sl_price |-> 2295 * PriceScale,
               tp_price |-> 2310 * PriceScale, account_balance |-> DEFAULT_BALANCE],
     tf_screenshots |-> [D1 |-> [before |-> "old.png"]],
     partial_closes |-> <<LegacyPartialClose, BothKeysPartialClose,
                          NullNotesPartialClose, CurrentPartialClose>>]

\* What load_trades can find at the path of the journal when the program
\* starts: no file, a file that is not JSON, the document {}, a document of
\* an older version without a balance, and a document of this version.
JournalFilesFound ==
    { NoJournalFile,
      MalformedJournalFile,
      [exists |-> TRUE, malformed |-> FALSE, data |-> EmptyDict],
      [exists |-> TRUE, malformed |-> FALSE,
       data |-> [trades |-> <<LegacyTradeRecord>>]],
      save_trades(<<NewTrade([trade_type |-> "Sell", entry_price |-> 2300 * PriceScale,
                              lot_size |-> 1 * LotScale,
                              sl_price |-> 2305 * PriceScale,
                              tp_price |-> 2290 * PriceScale], DEFAULT_BALANCE)>>,
                  5000 * MoneyScale) }

\* line 193, then lines 1795-1796
InitialLoad == mainloop = "init" /\ load_trades(TRUE)

\* line 188: File > Load.
MenuLoad == mainloop = "running" /\ load_trades(FALSE)

NextJournal ==
    \/ attach_tf_img
    \/ add_trade
    \/ open_review_popup
    \/ SelectOutcome
    \/ TypeClosePrice
    \/ add_partial_close_entry
    \/ close_trade_update_balance
    \/ CancelPopup
    \/ edit_tf_img
    \/ update_and_close
    \/ MenuSave
    \/ MenuLoad

\* Bound on the uses of the Update Balance popup among the form edits.
MaxBalanceWrites == 1

\* The entry form: the edits of its widgets and the Update Balance popup,
\* whose write of account_balance_var runs the trace of line 426.
NextForm ==
    \/ EditSlPips
    \/ EditSlPrice
    \/ EditTpPips
    \/ EditTpPrice
    \/ EditEntryPrice
    \/ SelectTradeType
    \/ EditLotSize
    \/ (nops < MaxBalanceWrites /\ update_and_close)

\* The program from its start: the load of the constructor, then the window.
NextJournalLoad ==
    \/ InitialLoad
    \/ NextJournal

(***************************************************************************)
(* The playbook: five categories of options, each an in-memory list and a  *)
(* JSON file.  A text is the sequence of its code points, so that strip()  *)
(* and the order of list.sort() are computed, not assumed.                 *)
(***************************************************************************)
\* line 20
DEFAULT_SL_LOGIC ==
    << <<66, 101, 108, 111, 119, 32, 83, 117, 112, 112, 111, 114, 116>>,   \* "Below Support"
       <<65, 84, 82, 32, 83, 116, 111, 112>>,   \* "ATR Stop"
       <<83, 116, 114, 117, 99, 116, 117, 114, 101>>,   \* "Structure"
       <<79, 116, 104, 101, 114>> >>   \* "Other"

\* line 21
DEFAULT_TP_LOGIC ==
    << <<65, 116, 32, 82, 101, 115, 105, 115, 116, 97, 110, 99, 101>>,   \* "At Resistance"
       <<82, 82, 32, 82, 97, 116, 105, 111>>,   \* "RR Ratio"
       <<80, 114, 101, 118, 105, 111, 117, 115, 32, 72, 105, 103, 104>>,   \* "Previous High"
       <<79, 116, 104, 101, 114>> >>   \* "Other"

\* line 22
DEFAULT_SETUPS ==
    << <<66, 114, 101, 97, 107, 111, 117, 116>>,   \* "Breakout"
       <<82, 101, 118, 101, 114, 115, 97, 108>>,   \* "Reversal"
       <<80, 117, 108, 108, 98, 97, 99, 107>>,   \* "Pullback"
       <<84, 114, 101, 110, 100, 32, 67, 111, 110, 116, 105, 110, 117, 97, 116, 105, 111, 110>>,   \* "Trend Continuation"
       <<82, 97, 110, 103, 101>>,   \* "Range"
       <<78, 101, 119, 115, 32, 80, 108, 97, 121>>,   \* "News Play"
       <<79, 116, 104, 101, 114>> >>   \* "Other"

\* line 23
DEFAULT_ENTRIES ==
    << <<77, 97, 114, 107, 101, 116>>,   \* "Market"
       <<76, 105, 109, 105, 116>>,   \* "Limit"
       <<83, 116, 111, 112>>,   \* "Stop"
       <<66, 114, 101, 97, 107, 45, 69, 118, 101, 110>>,   \* "Break-Even"
       <<82, 101, 116, 101, 115, 116>>,   \* "Retest"
       <<79, 116, 104, 101, 114>> >>   \* "Other"

\* lines 24-36
DEFAULT_PARTIAL_CLOSE_REASONS ==
    << <<>>,   \* ""
       <<82, 101, 97, 99, 104, 101, 100, 32, 80, 97, 114, 116, 105, 97, 108, 32, 84, 80, 32, 49>>,   \* "Reached Partial TP 1"
       <<82, 101, 97, 99, 104, 101, 100, 32, 80, 97, 114, 116, 105, 97, 108, 32, 84, 80, 32, 50>>,   \* "Reached Partial TP 2"
       <<77, 105, 110, 111, 114, 32, 83, 117, 112, 112, 111, 114, 116, 47, 82, 101, 115, 105, 115, 116, 97, 110, 99, 101, 32, 72, 105, 116>>,   \* "Minor Support/Resistance Hit"
       <<67, 97, 110, 100, 108, 101, 32, 67, 108, 111, 115, 101, 100, 32, 65, 103, 97, 105, 110, 115, 116, 32, 77, 101>>,   \* "Candle Closed Against Me"
       <<86, 111, 108, 97, 116, 105, 108, 105, 116, 121, 32, 83, 112, 105, 107, 101>>,   \* "Volatility Spike"
       <<78, 101, 119, 115, 32, 69, 118, 101, 110, 116, 32, 65, 112, 112, 114, 111, 97, 99, 104, 105, 110, 103>>,   \* "News Event Approaching"
       <<84, 105, 109, 101, 32, 66, 97, 115, 101, 100, 32, 69, 120, 105, 116>>,   \* "Time Based Exit"
       <<80, 114, 105, 99, 101, 32, 65, 99, 116, 105, 111, 110, 32, 83, 104, 105, 102, 116>>,   \* "Price Action Shift"
       <<77, 97, 110, 117, 97, 108, 32, 73, 110, 116, 101, 114, 118, 101, 110, 116, 105, 111, 110>>,   \* "Manual Intervention"
       <<79, 116, 104, 101, 114>> >>   \* "Other"

PlaybookCategories ==
    {"sl_logic", "tp_logic", "setups", "entries", "partial_close_reasons"}

\* lines 225-229, 535-541: the default list of each category.
DefaultPlaybook ==
    [category \in PlaybookCategories |->
       CASE category = "sl_logic" -> DEFAULT_SL_LOGIC
         [] category = "tp_logic" -> DEFAULT_TP_LOGIC
         [] category = "setups"   -> DEFAULT_SETUPS
         [] category = "entries"  -> DEFAULT_ENTRIES
         [] category = "partial_close_reasons" -> DEFAULT_PARTIAL_CLOSE_REASONS]

\* The code points str.strip() removes, among those below 128.
WhitespaceCodes == {9, 10, 11, 12, 13, 28, 29, 30, 31, 32}

RECURSIVE lstrip(_)
lstrip(text) ==
    IF Len(text) > 0 /\ text[1] \in WhitespaceCodes THEN lstrip(Tail(text)) ELSE text

RECURSIVE rstrip(_)
rstrip(text) ==
    IF Len(text) > 0 /\ text[Len(text)] \in WhitespaceCodes
    THEN rstrip(SubSeq(text, 1, Len(text) - 1)) ELSE text

\* str.strip() (line 627)
strip(text) == rstrip(lstrip(text))

RECURSIVE StrLess(_, _)
\* a < b for two str: by code point, a proper prefix first.
StrLess(a, b) ==
    IF Len(b) = 0 THEN FALSE
    ELSE IF Len(a) = 0 THEN TRUE
    ELSE IF a[1] # b[1] THEN a[1] < b[1]
    ELSE StrLess(Tail(a), Tail(b))

RECURSIVE InsertSorted(_, _)
InsertSorted(item, list) ==
    IF Len(list) = 0 THEN <<item>>
    ELSE IF StrLess(item, list[1]) THEN <<item>> \o list
    ELSE <<list[1]>> \o InsertSorted(item, Tail(list))

\* A list left as it is where line 630 sorts it.
sort_NotSorting(list) == list

RECURSIVE sort(_)
\* list.sort() (line 630)
sort(list) ==
    IF Len(list) = 0 THEN << >> ELSE InsertSorted(list[1], sort(Tail(list)))

\* A membership test that finds nothing.
Contains_Never(list, item) == FALSE

\* item in options_list (line 628)
Contains(list, item) == \E i \in 1..Len(list) : list[i] = item

\* What the user types into the entry of a category before pressing Add.
TextEmpty == <<>>   \* ""
TextBlank == <<32, 32>>   \* "  "
TextOther == <<79, 116, 104, 101, 114>>   \* "Other"
TextOtherPadded == <<32, 79, 116, 104, 101, 114, 32>>   \* " Other "
TextOtherLower == <<111, 116, 104, 101, 114>>   \* "other"
TextNew == <<78, 101, 119>>   \* "New"
TextNewPadded == <<78, 101, 119, 32>>   \* "New "
PlaybookTexts ==
    {TextEmpty, TextBlank, TextOther, TextOtherPadded, TextOtherLower,
     TextNew, TextNewPadded}

\* What load_or_create finds at the path of a category: no file, a file
\* that json.load rejects, or a JSON list of strings.
FileStates == {"absent", "corrupted", "json"}

\* The files the program can find at start: none, one that is not JSON, the
\* default list as written by an earlier run, or a list the user has made.
FilesFound == {"absent", "corrupted", "default", "user"}
StateFound(found) == IF found \in {"default", "user"} THEN "json" ELSE found
ContentFound(found, category) ==
    IF found = "default" THEN DefaultPlaybook[category]
    ELSE IF found = "user" THEN <<TextNew, TextOther>>
    ELSE << >>

\* A load_or_create that returns the defaults for a corrupted file and
\* leaves the file as it is.
load_or_create_NoReset(state, content, default_list) ==
    IF state = "json"
    THEN [options |-> content, state |-> "json", file |-> content, warned |-> FALSE]
    ELSE IF state = "corrupted"
    THEN [options |-> default_list, state |-> "corrupted", file |-> content, warned |-> TRUE]
    ELSE [options |-> default_list, state |-> "json", file |-> default_list, warned |-> FALSE]

\* lines 208-223: the list returned for a file in the given state and with
\* the given content, the file afterwards, and whether "File Error" was
\* shown.
load_or_create(state, content, default_list) ==
    IF state = "json"
    THEN [options |-> content, state |-> "json", file |-> content, warned |-> FALSE]
    ELSE IF state = "corrupted"
    THEN [options |-> default_list, state |-> "json", file |-> default_list, warned |-> TRUE]
    ELSE [options |-> default_list, state |-> "json", file |-> default_list, warned |-> FALSE]

\* lines 203-229: the five categories are loaded one after the other.
load_playbook_options ==
    LET loaded == [category \in PlaybookCategories |->
                     load_or_create(playbook_file_state[category],
                                    playbook_files[category],
                                    DefaultPlaybook[category])]
    IN  /\ ~playbook_loaded
        /\ playbook_loaded' = TRUE
        /\ playbook_options' = [category \in PlaybookCategories |-> loaded[category].options]
        /\ playbook_files' = [category \in PlaybookCategories |-> loaded[category].file]
        /\ playbook_file_state' = [category \in PlaybookCategories |-> loaded[category].state]
        /\ file_errors' = {category \in PlaybookCategories : loaded[category].warned}
        /\ playbook_messagebox' = IF file_errors' = {} THEN "" ELSE "File Error"
        /\ UNCHANGED <<last_add, last_change, nplaybook>>
        /\ UNCHANGED <<formVars, sessionVars, journalVars>>

NextPlaybookLoad == load_playbook_options

\* A save that writes nothing.
save_playbook_options_Skipped(files, options_list, category) == files

\* lines 231-237: the file of the category is overwritten with the list.
save_playbook_options(files, options_list, category) ==
    [files EXCEPT ![category] = options_list]

\* The operations on the playbook one run of the model performs.
MaxPlaybookOps == 3

\* The ghost records of the last Add and of the last Edit or Delete: the
\* category, the text of the entry, the selected row of the listbox (0 when
\* no row is selected) and the answer to the confirmation.
NoAdd == [category |-> "", text |-> TextEmpty]
NoChange == [op |-> "", category |-> "", selection |-> 0, text |-> TextEmpty, yes |-> FALSE]

\* lines 625-638, for the category whose Add button is pressed and the text
\* of its entry.  last_add is the ghost record of that category and text.
add_playbook_item ==
    \E category \in PlaybookCategories, text \in PlaybookTexts :
        LET options_list == playbook_options[category]
            new_item == strip(text)
            new_list == sort(Append(options_list, new_item))
        IN  /\ nplaybook < MaxPlaybookOps
            /\ nplaybook' = nplaybook + 1
            /\ last_add' = [category |-> category, text |-> text]
            /\ last_change' = NoChange
            /\ IF Len(new_item) > 0 /\ ~Contains(options_list, new_item)
               THEN /\ playbook_options' = [playbook_options EXCEPT ![category] = new_list]
                    /\ playbook_files' = save_playbook_options(playbook_files, new_list, category)
                    /\ playbook_messagebox' = ""
               ELSE IF Len(new_item) = 0
               THEN /\ playbook_messagebox' = "Input Error"
                    /\ UNCHANGED <<playbook_options, playbook_files>>
               ELSE /\ playbook_messagebox' = "Duplicate"
                    /\ UNCHANGED <<playbook_options, playbook_files>>
            /\ UNCHANGED <<playbook_file_state, playbook_loaded, file_errors>>
            /\ UNCHANGED <<formVars, sessionVars, journalVars>>

\* list.index(item) (line 663): the position of the first occurrence.
index(list, item) == CHOOSE i \in 1..Len(list) :
    list[i] = item /\ \A j \in 1..(i - 1) : list[j] # item

\* options_list[options_list.index(old_item)] = new_item (line 663)
ReplaceFirst(list, old_item, new_item) ==
    [list EXCEPT ![index(list, old_item)] = new_item]

\* A removal that sorts what is left.
remove_AndSort(list, item) ==
    sort(SubSeq(list, 1, index(list, item) - 1)
            \o SubSeq(list, index(list, item) + 1, Len(list)))

\* list.remove(item) (line 682): the first occurrence goes, the rest keeps
\* its order.
remove(list, item) ==
    SubSeq(list, 1, index(list, item) - 1)
        \o SubSeq(list, index(list, item) + 1, Len(list))

\* listbox.curselection() (lines 642, 674): no row, the first row or the
\* last row of the listbox, which _populate_listbox (lines 593, 632, 668,
\* 684) keeps equal to the list of the category.
Selections(list) == {0} \cup (IF Len(list) = 0 THEN {} ELSE {1, Len(list)})

\* What the entry of a category holds when Edit Selected is pressed.
EditTexts == {TextEmpty, TextOther, TextOtherLower, TextNewPadded}

\* lines 640-670, for the category whose Edit Selected button is pressed.
edit_playbook_item ==
    \E category \in PlaybookCategories, text \in EditTexts :
      \E selection \in Selections(playbook_options[category]) :
        LET options_list == playbook_options[category]
            old_item == options_list[selection]
            new_item == strip(text)
            new_list == sort(ReplaceFirst(options_list, old_item, new_item))
        IN  /\ nplaybook < MaxPlaybookOps
            /\ nplaybook' = nplaybook + 1
            /\ last_add' = NoAdd
            /\ last_change' = [op |-> "edit", category |-> category,
                               selection |-> selection, text |-> text, yes |-> FALSE]
            /\ IF selection = 0
               THEN /\ playbook_messagebox' = "Selection Error"
                    /\ UNCHANGED <<playbook_options, playbook_files>>
               ELSE IF Len(new_item) = 0
               THEN /\ playbook_messagebox' = "Input Error"
                    /\ UNCHANGED <<playbook_options, playbook_files>>
               ELSE IF new_item = old_item
               THEN /\ playbook_messagebox' = "No Change"
                    /\ UNCHANGED <<playbook_options, playbook_files>>
               ELSE IF Contains(options_list, new_item) /\ new_item # old_item
               THEN /\ playbook_messagebox' = "Duplicate"
                    /\ UNCHANGED <<playbook_options, playbook_files>>
               ELSE /\ playbook_options' = [playbook_options EXCEPT ![category] = new_list]
                    /\ playbook_files' = save_playbook_options(playbook_files, new_list, category)
                    /\ playbook_messagebox' = ""
            /\ UNCHANGED <<playbook_file_state, playbook_loaded, file_errors>>
            /\ UNCHANGED <<formVars, sessionVars, journalVars>>

\* lines 672-685, for the category whose Delete Selected button is pressed
\* and the answer to "Confirm Deletion".
delete_playbook_item ==
    \E category \in PlaybookCategories, yes \in BOOLEAN :
      \E selection \in Selections(playbook_options[category]) :
        LET options_list == playbook_options[category]
            item_to_delete == options_list[selection]
            new_list == remove(options_list, item_to_delete)
        IN  /\ nplaybook < MaxPlaybookOps
            /\ nplaybook' = nplaybook + 1
            /\ last_add' = NoAdd
            /\ last_change' = [op |-> "delete", category |-> category,
                               selection |-> selection, text |-> TextEmpty, yes |-> yes]
            /\ IF selection = 0
               THEN /\ playbook_messagebox' = "Selection Error"
                    /\ UNCHANGED <<playbook_options, playbook_files>>
               ELSE IF yes /\ Contains(options_list, item_to_delete)
               THEN /\ playbook_options' = [playbook_options EXCEPT ![category] = new_list]
                    /\ playbook_files' = save_playbook_options(playbook_files, new_list, category)
                    /\ playbook_messagebox' = ""
               ELSE /\ playbook_messagebox' = ""
                    /\ UNCHANGED <<playbook_options, playbook_files>>
            /\ UNCHANGED <<playbook_file_state, playbook_loaded, file_errors>>
            /\ UNCHANGED <<formVars, sessionVars, journalVars>>

NextPlaybook ==
    \/ add_playbook_item
    \/ edit_playbook_item
    \/ delete_playbook_item

(***************************************************************************)
(* Claims about the journal (checked under Spec).  The claimed amounts are *)
(* written out in the units of the model: a price difference of d/1000     *)
(* is d/100 pips, and d/100 pips on r/10000 lots at 10 dollars per pip and *)
(* lot are d * r / 100000 dollars.                                         *)
(***************************************************************************)
ClaimedRemaining(trade) ==
    trade.info.lot_size - SumAmount(trade.partial_closes)
ClaimedLeg(trade) ==
    IF trade.info.trade_type = "Buy"
    THEN (trade.review.price.val - trade.info.entry_price) * ClaimedRemaining(trade)
    ELSE (trade.info.entry_price - trade.review.price.val) * ClaimedRemaining(trade)
IsTerminal(trade) ==
    trade.review.outcome \in {"Take Profit Hit", "Stoploss Hit", "Breakeven", "Other"}

\* C1 as stated: for every trade the amounts of its partial closes sum to at
\* most its lot size.
C1_SumWithinLot ==
    \A i \in 1..Len(trades) :
        SumAmount(trades[i].partial_closes) <= trades[i].info.lot_size

\* C1, what the code keeps: the sum exceeds the lot size by at most the
\* slack of line 1164, and a rejected partial close changes no trade.
C1_SumWithinTolerance ==
    [][ /\ \A i \in 1..Len(trades') :
             SumAmount(trades'[i].partial_closes)
                 <= trades'[i].info.lot_size + LOT_TOLERANCE
        /\ messagebox' \in {"Invalid Input", "Missing Information", "Error"}
             => trades' = trades ]_vars

SignStatus(total) ==
    IF total > 0 THEN "Win" ELSE IF total < 0 THEN "Loss" ELSE "Breakeven"

\* C3 as stated: a row whose outcome is terminal is Win, Loss or Breakeven
\* by the sign of its total P&L, and a row is Open iff its outcome is not
\* terminal.
C3_Classification ==
    \A i \in 1..Len(trades) :
        /\ IsTerminal(trades[i])
             => trades_tree[i].win_loss_status
                    = SignStatus(trades_tree[i].total_pnl_for_display)
        /\ trades_tree[i].win_loss_status = "Open" <=> ~IsTerminal(trades[i])

\* C3, what the code keeps: the classification by sign for a terminal
\* outcome whose close price is a number; every other row is Open.
C3_ClassificationOfNumericPrice ==
    \A i \in 1..Len(trades) :
        IF IsTerminal(trades[i]) /\ trades[i].review.price.num
        THEN trades_tree[i].win_loss_status
                 = SignStatus(trades_tree[i].total_pnl_for_display)
        ELSE trades_tree[i].win_loss_status = "Open"

\* The total P&L of the claim, for a close price that is a number.
ClaimedTotal(trade) ==
    SumPnl(trade.partial_closes)
    + (IF IsTerminal(trade) /\ ClaimedRemaining(trade) > 0 /\ trade.review.price.num
       THEN ClaimedLeg(trade) ELSE 0)

\* C4 as stated: the total P&L of a trade, in its row of the table and in
\* what close-trade adds to the balance, is the sum of the partial pnl plus,
\* only when the outcome is terminal and lots remain, the final leg; a Buy
\* at 2300.0 of 1.0 lot closed at 2310.0 gives $1000.
C4_TotalPnl ==
    /\ \A i \in 1..Len(trades) :
         trades_tree[i].total_pnl_for_display = ClaimedTotal(trades[i])
    /\ last.closed =>
         account_balance_var - last.balance_before = ClaimedTotal(trades[last.idx])

\* C4, what the code keeps: the total of the table row.
C4_TableTotal ==
    \A i \in 1..Len(trades) :
        /\ trades_tree[i].total_pnl_for_display = ClaimedTotal(trades[i])
        /\ ( /\ trades[i].info.trade_type = "Buy"
             /\ trades[i].info.entry_price = 2300 * PriceScale
             /\ trades[i].info.lot_size = 1 * LotScale
             /\ trades[i].partial_closes = << >>
             /\ IsTerminal(trades[i])
             /\ trades[i].review.price = Num(2310 * PriceScale) )
           => /\ trades_tree[i].total_pnl_for_display = 1000 * MoneyScale
              /\ trades_tree[i].win_loss_status = "Win"

\* C5: the stats bar shows the number of trades, open ones included, the
\* number with outcome "Take Profit Hit", the number with outcome "Stoploss
\* Hit", and as win rate the integer nearest to 100 * wins / total, 0 for an
\* empty journal and 33 for one win in three trades.
C5_StatsBar ==
    LET total  == Len(trades)
        wins   == Cardinality({i \in 1..Len(trades) :
                                 trades[i].review.outcome = "Take Profit Hit"})
        losses == Cardinality({i \in 1..Len(trades) :
                                 trades[i].review.outcome = "Stoploss Hit"})
        wr     == trade_stats_var.wr
    IN  /\ trade_stats_var.total = total
        /\ trade_stats_var.wins = wins
        /\ trade_stats_var.losses = losses
        /\ total = 0 => wr = 0
        /\ total > 0 => 2 * Abs(100 * wins - wr * total) <= total
        /\ (total = 3 /\ wins = 1) => wr = 33

\* Three trades, one closed at its take profit and two still open: 33%.
C5_Witness ==
    /\ Len(trades) = 3
    /\ Cardinality({i \in 1..Len(trades) :
                      trades[i].review.outcome = "Take Profit Hit"}) = 1
    /\ Cardinality({i \in 1..Len(trades) : trades[i].review.outcome = ""}) = 2
    /\ trade_stats_var.wr = 33
    /\ trade_stats_var.total = 3

(***************************************************************************)
(* Claims about the playbook (checked under SpecPlaybook).                 *)
(***************************************************************************)
\* A list in ascending order of code points.
IsSortedList(list) ==
    \A i \in 1..Len(list), j \in 1..Len(list) :
        i < j => ~StrLess(list[j], list[i])
ItemsOf(list) == {list[i] : i \in 1..Len(list)}
\* The step of an Add left everything as it was.
AddRejected ==
    playbook_options' = playbook_options /\ playbook_files' = playbook_files
\* The step of an Add put item into the list of category, which is then
\* sorted and is what the file of the category holds.
AddInserted(category, item) ==
    /\ ItemsOf(playbook_options'[category])
         = ItemsOf(playbook_options[category]) \cup {item}
    /\ Len(playbook_options'[category]) = Len(playbook_options[category]) + 1
    /\ IsSortedList(playbook_options'[category])
    /\ playbook_files'[category] = playbook_options'[category]
    /\ \A other \in PlaybookCategories \ {category} :
         /\ playbook_options'[other] = playbook_options[other]
         /\ playbook_files'[other] = playbook_files[other]

NoDuplicates(list) ==
    \A i, j \in 1..Len(list) : list[i] = list[j] => i = j
\* The step is an Add or an Edit Selected that was accepted, on category.
AcceptedAddOrEdit(category) ==
    /\ playbook_messagebox' = ""
    /\ \/ last_add'.category = category
       \/ last_change'.op = "edit" /\ last_change'.category = category

\* C11: starting from the default lists, after any sequence of add, edit
\* and delete no list of a category holds a string twice, and right after
\* an accepted add or edit the list of that category is sorted.
C11_NoDuplicatesSorted ==
    /\ [](\A category \in PlaybookCategories :
            NoDuplicates(playbook_options[category]))
    /\ [][\A category \in PlaybookCategories :
            AcceptedAddOrEdit(category) =>
                /\ NoDuplicates(playbook_options'[category])
                /\ IsSortedList(playbook_options'[category])]_vars

\* "Below Support" deleted from the stop-loss reasons, which leaves them
\* unsorted, then "ATR Stop" edited into "New ": the list is New, Other,
\* Structure.
C11_Witness ==
    /\ last_change.op = "edit"
    /\ last_change.category = "sl_logic"
    /\ playbook_messagebox = ""
    /\ playbook_options["sl_logic"]
         = <<TextNew, TextOther, DEFAULT_SL_LOGIC[3]>>

\* The step left the lists and the files of all categories as they were.
PlaybookUnchanged ==
    playbook_options' = playbook_options /\ playbook_files' = playbook_files
\* The step changed nothing outside category.
OthersUnchanged(category) ==
    \A other \in PlaybookCategories \ {category} :
        /\ playbook_options'[other] = playbook_options[other]
        /\ playbook_files'[other] = playbook_files[other]
\* The step replaced old by new in the list of category and sorted it.
EditReplaced(category, old, new) ==
    /\ ItemsOf(playbook_options'[category])
         = (ItemsOf(playbook_options[category]) \ {old}) \cup {new}
    /\ Len(playbook_options'[category]) = Len(playbook_options[category])
    /\ IsSortedList(playbook_options'[category])
    /\ OthersUnchanged(category)
\* list without its i-th entry.
RemoveAt(list, i) == SubSeq(list, 1, i - 1) \o SubSeq(list, i + 1, Len(list))
\* The step removed the selected row from the list of category and nothing
\* else, the rest in its order.
DeleteRemoved(category, selection) ==
    /\ playbook_options'[category]
         = RemoveAt(playbook_options[category], selection)
    /\ OthersUnchanged(category)

\* C12 as stated, with "old is absent" read as "no row is selected", the
\* only way the window has of naming an item that is not in the list: an
\* edit fails when nothing is selected, fails as a duplicate when the new
\* text is another entry of the list, and otherwise replaces and re-sorts;
\* a delete fails when nothing is selected and otherwise removes the item.
C12_Original ==
    [][ LET category == last_change'.category
            selection == last_change'.selection
            old == playbook_options[category][selection]
            new == last_change'.text
        IN  /\ last_change'.op = "edit" =>
                IF selection = 0
                THEN playbook_messagebox' = "Selection Error" /\ PlaybookUnchanged
                ELSE IF new \in ItemsOf(playbook_options[category]) /\ new # old
                THEN playbook_messagebox' = "Duplicate" /\ PlaybookUnchanged
                ELSE EditReplaced(category, old, new)
            /\ last_change'.op = "delete" =>
                IF selection = 0
                THEN playbook_messagebox' = "Selection Error" /\ PlaybookUnchanged
                ELSE DeleteRemoved(category, selection) ]_vars

\* C12 amended: the new item is the text of the entry without leading and
\* trailing whitespace.  An edit with no row selected, with an empty new
\* item, with a new item equal to the selected one ("No Change": the list is
\* not re-sorted) or equal to another entry ("Duplicate") changes nothing;
\* otherwise the selected item is replaced and the list sorted.  A delete
\* with no row selected or with the confirmation declined changes nothing;
\* a confirmed delete removes the selected item and keeps the order of the
\* others.
C12_EditDelete ==
    [][ LET category == last_change'.category
            selection == last_change'.selection
            old == playbook_options[category][selection]
            new == strip(last_change'.text)
        IN  /\ last_change'.op = "edit" =>
                IF selection = 0
                THEN playbook_messagebox' = "Selection Error" /\ PlaybookUnchanged
                ELSE IF new = << >>
                THEN playbook_messagebox' = "Input Error" /\ PlaybookUnchanged
                ELSE IF new = old
                THEN playbook_messagebox' = "No Change" /\ PlaybookUnchanged
                ELSE IF new \in ItemsOf(playbook_options[category])
                THEN playbook_messagebox' = "Duplicate" /\ PlaybookUnchanged
                ELSE playbook_messagebox' = "" /\ EditReplaced(category, old, new)
            /\ last_change'.op = "delete" =>
                IF selection = 0
                THEN playbook_messagebox' = "Selection Error" /\ PlaybookUnchanged
                ELSE IF ~last_change'.yes
                THEN PlaybookUnchanged
                ELSE DeleteRemoved(category, selection) ]_vars

\* "Other" deleted from the take-profit reasons, the three others in their
\* order; then "Other" of the stop-loss reasons edited into "Other": no
\* change, and the list is still in the unsorted order of the defaults.
C12_Witness ==
    /\ last_change.op = "edit"
    /\ last_change.category = "sl_logic"
    /\ last_change.text = TextOther
    /\ playbook_messagebox = "No Change"
    /\ playbook_options["sl_logic"] = DEFAULT_SL_LOGIC
    /\ ~IsSortedList(playbook_options["sl_logic"])
    /\ playbook_options["tp_logic"] = SubSeq(DEFAULT_TP_LOGIC, 1, 3)
    /\ playbook_files["tp_logic"] = SubSeq(DEFAULT_TP_LOGIC, 1, 3)

\* The category of the Add, Edit Selected or Delete Selected of the step.
OperatedCategory ==
    IF last_add'.category \in PlaybookCategories
    THEN last_add'.category ELSE last_change'.category

LoadStep == last'.op = "load"
\* The load found no file: an empty journal and the default balance.
LoadOfAbsent ==
    ~journal_file.exists =>
        trades' = << >> /\ account_balance_var' = DEFAULT_BALANCE
\* The load found a malformed file and the user accepted the recovery: the
\* content is under the backup name, the file written is the empty journal,
\* and the session goes on with no trades and the default balance.
LoadRecovered ==
    (journal_file.malformed /\ last'.input.response) =>
        /\ journal_backup'
        /\ journal_file' = save_trades(<< >>, DEFAULT_BALANCE)
        /\ trades' = << >>
        /\ account_balance_var' = DEFAULT_BALANCE
        /\ mainloop' = "running"
\* The load found a malformed file and the user declined.
LoadDeclined == journal_file.malformed /\ ~last'.input.response

\* C15: a load of the journal yields no trades and the default balance when
\* there is no file; with a malformed file and the recovery accepted, the
\* content is kept under the backup name and the session goes on with an
\* empty journal; with the recovery declined the session ends and the file
\* stays as it is.
C15_JournalLoad ==
    [][ LoadStep =>
          /\ LoadOfAbsent
          /\ LoadRecovered
          /\ LoadDeclined =>
                (mainloop' = "quit" /\ journal_file' = journal_file) ]_vars

\* The part of C15 that holds: the absent file, the accepted recovery, and
\* the declined recovery of File > Load.
C15_LoadFromMenu ==
    [][ LoadStep =>
          /\ LoadOfAbsent
          /\ LoadRecovered
          /\ (LoadDeclined /\ ~last'.input.starting) =>
                (mainloop' = "quit" /\ journal_file' = journal_file) ]_vars

\* What follows a recovery declined at the start: the window runs, and the
\* first trade added overwrites the malformed file, of which no backup
\* exists.
C15_MalformedFileKept ==
    [][ (journal_file.malformed /\ ~journal_file'.malformed) => journal_backup' ]_vars

\* The journal file is what save writes for the trades and the balance in
\* memory.
FileIsSaved == journal_file = save_trades(trades, account_balance_var)
\* Two trades are equal field by field, the partial closes in their order.
SameTrade(a, b) ==
    /\ a.symbol = b.symbol
    /\ a.timeframe = b.timeframe
    /\ a.info = b.info
    /\ a.tf_screenshots = b.tf_screenshots
    /\ a.review = b.review
    /\ Len(a.partial_closes) = Len(b.partial_closes)
    /\ \A k \in 1..Len(a.partial_closes) : a.partial_closes[k] = b.partial_closes[k]
    /\ a.sl_to_be = b.sl_to_be

\* C16: a load of the file that save has written for the trades and the
\* balance in memory yields the same trades, field by field, and the same
\* balance.
C16_SaveLoadIdentity ==
    [][ (LoadStep /\ FileIsSaved) =>
          /\ Len(trades') = Len(trades)
          /\ \A i \in 1..Len(trades) : SameTrade(trades'[i], trades[i])
          /\ account_balance_var' = account_balance_var ]_vars

\* File > Load of a saved journal whose trade has partial closes, a review
\* with an outcome and a close price, a screenshot and the stop loss moved
\* to break-even.
C16_Witness ==
    /\ last.op = "load"
    /\ ~last.input.starting
    /\ FileIsSaved
    /\ last.balance_before = account_balance_var
    /\ \E i \in 1..Len(trades) :
         /\ trades[i].partial_closes # << >>
         /\ trades[i].review.outcome = "Other"
         /\ trades[i].review.price.num
         /\ trades[i].sl_to_be
         /\ trades[i].tf_screenshots["D1"]["before"] # None

\* The partial closes in the file the step loads, as (trade, entry) pairs.
LoadedPartialCloses ==
    LET file_trades == Get(journal_file.data, "trades", << >>)
    IN  { <<i, k>> \in (1..Len(file_trades)) \X (1..4) :
            k <= Len(Get(file_trades[i], "partial_closes", << >>)) }
FilePartialClose(i, k) == journal_file.data["trades"][i]["partial_closes"][k]
\* The reason an entry of the file is to have after the load.
NormalReason(before) ==
    IF "reason_for_close" \in DOMAIN before THEN before["reason_for_close"]
    ELSE IF "notes" \in DOMAIN before /\ before["notes"] # None
    THEN before["notes"] ELSE ""
\* The three keys are there, with the values of the file or else the
\* defaults, and what else the file had, the notes aside, is as it was.
Backfilled(before, after) ==
    /\ {"reason_for_close", "pips", "pnl"} \subseteq DOMAIN after
    /\ after["reason_for_close"] = NormalReason(before)
    /\ after["pips"] = Get(before, "pips", 0)
    /\ after["pnl"] = Get(before, "pnl", 0)
    /\ \A key \in DOMAIN before \ {"notes"} : after[key] = before[key]
    /\ DOMAIN after \ {"notes"}
         = (DOMAIN before \ {"notes"}) \cup {"reason_for_close", "pips", "pnl"}

\* C17 as stated: after the load every partial close has reason_for_close,
\* pips and pnl and no notes; a missing reason is the notes when they are
\* there and not null, else empty; missing pips and pnl are 0.0; what was
\* there is unchanged.
C17_Original ==
    [][ (LoadStep /\ journal_file.exists /\ ~journal_file.malformed) =>
          \A pair \in LoadedPartialCloses :
            LET before == FilePartialClose(pair[1], pair[2])
                after == trades'[pair[1]].partial_closes[pair[2]]
            IN  Backfilled(before, after) /\ "notes" \notin DOMAIN after ]_vars

\* C17 amended: the notes are dropped from the entries that had no
\* reason_for_close; an entry that has both keys keeps both as they are.
C17_Normalization ==
    [][ (LoadStep /\ journal_file.exists /\ ~journal_file.malformed) =>
          \A pair \in LoadedPartialCloses :
            LET before == FilePartialClose(pair[1], pair[2])
                after == trades'[pair[1]].partial_closes[pair[2]]
            IN  /\ Backfilled(before, after)
                /\ IF "notes" \in DOMAIN before /\ "reason_for_close" \in DOMAIN before
                   THEN "notes" \in DOMAIN after /\ after["notes"] = before["notes"]
                   ELSE "notes" \notin DOMAIN after ]_vars

\* The journal of the older version loaded: the first entry has the reason
\* "abc" of its notes and no notes, the second its reason and its notes, the
\* third an empty reason, and the first and the third a pnl of 0.0.
C17_Witness ==
    /\ last.op = "load"
    /\ Len(trades) = 1
    /\ Len(trades[1].partial_closes) = 4
    /\ trades[1].partial_closes[1]["reason_for_close"] = "abc"
    /\ "notes" \notin DOMAIN trades[1].partial_closes[1]
    /\ trades[1].partial_closes[1]["pips"] = 0
    /\ trades[1].partial_closes[2]["notes"] = "old"
    /\ trades[1].partial_closes[2]["reason_for_close"] = "Other"
    /\ trades[1].partial_closes[3]["reason_for_close"] = ""
    /\ "notes" \notin DOMAIN trades[1].partial_closes[3]
    /\ trades[1].partial_closes[3]["pnl"] = 0
    /\ trades[1].partial_closes[4] = CurrentPartialClose

\* C18: no operation on the journal changes the entry price or the lot
\* size of a trade that exists (nor anything else of it but its review, its
\* partial closes, its sl_to_be and its screenshot paths), and the partial
\* closes of a trade only grow at the end: the entries there are keep
\* their place and their content.
C18_Frame ==
    [][ /\ Len(trades') >= Len(trades)
        /\ \A i \in 1..Len(trades) :
             /\ trades'[i].info.entry_price = trades[i].info.entry_price
             /\ trades'[i].info.lot_size = trades[i].info.lot_size
             /\ trades'[i].info = trades[i].info
             /\ trades'[i].symbol = trades[i].symbol
             /\ trades'[i].timeframe = trades[i].timeframe
             /\ Len(trades'[i].partial_closes) >= Len(trades[i].partial_closes)
             /\ \A k \in 1..Len(trades[i].partial_closes) :
                  trades'[i].partial_closes[k] = trades[i].partial_closes[k] ]_vars

\* A Sell with two partial closes, the first of 0.0001 lot and the second
\* of one lot, a screenshot attached in the popup, and closed with the stop
\* loss moved to break-even: entry price and lot size are those of the form.
C18_Witness ==
    /\ last.op = "close"
    /\ trades[last.idx].info.trade_type = "Sell"
    /\ trades[last.idx].info.entry_price = 2300 * PriceScale
    /\ trades[last.idx].info.lot_size = 1 * LotScale
    /\ Len(trades[last.idx].partial_closes) = 2
    /\ trades[last.idx].partial_closes[1].amount = 1
    /\ trades[last.idx].partial_closes[2].amount = LotScale
    /\ trades[last.idx].tf_screenshots["H1"]["after"] = "chart.png"
    /\ trades[last.idx].sl_to_be
    /\ FileIsSaved

\* The step is an add-partial-close.
PartialStep == last'.op = "partial"
\* The step committed nothing.
NothingCommitted ==
    /\ trades' = trades
    /\ journal_file' = journal_file
    /\ account_balance_var' = account_balance_var
\* A recorded partial close is as the specification has it: a positive
\* amount, a reason, and pnl = pips * amount * usd_per_pip_per_lot.
WellFormedPartial(pc) ==
    /\ pc.amount > 0
    /\ pc.reason_for_close # ""
    /\ pc.pnl * ((PipScale * LotScale) \div MoneyScale)
         = pc.pips * pc.amount * USD_PER_PIP_PER_LOT

\* C19: an add-partial-close with an amount that is not positive, with
\* price and pips both zero, or with an empty reason is rejected and commits
\* nothing; so every partial close the add action has recorded has a
\* positive amount, a reason, and pnl = pips * amount * usd_per_pip_per_lot.
C19_PartialRejected ==
    /\ [][ PartialStep =>
            LET input == last'.input
            IN  /\ ( \/ (input.amount.num /\ input.amount.val <= 0)
                     \/ (input.price = 0 /\ input.pips = 0)
                     \/ input.reason_for_close = "" )
                   => ( /\ NothingCommitted
                        /\ messagebox' \in {"Invalid Input", "Missing Information", "Error"} )
                /\ ~NothingCommitted =>
                     ( /\ messagebox' = "Partial Close Added"
                       /\ Len(trades'[input.idx].partial_closes)
                            = Len(trades[input.idx].partial_closes) + 1
                       /\ journal_file' = save_trades(trades', account_balance_var) ) ]_vars
    /\ [](\A i \in 1..Len(trades) : \A k \in 1..Len(trades[i].partial_closes) :
            WellFormedPartial(trades[i].partial_closes[k]))

\* One lot at 50 pips added to a trade with no reason chosen: rejected, and
\* the trade has the one partial close it had, of 0.0001 lot with the
\* reason "Other" and a pnl of $0.05.
C19_Witness ==
    /\ last.op = "partial"
    /\ last.input.reason_for_close = ""
    /\ last.input.amount = Num(LotScale)
    /\ last.input.pips = 50 * PipScale
    /\ messagebox = "Missing Information"
    /\ Len(trades[last.input.idx].partial_closes) = 1
    /\ trades[last.input.idx].partial_closes[1].amount = 1
    /\ trades[last.input.idx].partial_closes[1].reason_for_close = "Other"
    /\ trades[last.input.idx].partial_closes[1].pnl = MoneyScale \div 20

\* An add-partial-close whose amount is not a number, and a balance
\* override whose text is not a number, are reported and change nothing.
NonNumericPartialAborted ==
    (PartialStep /\ ~last'.input.amount.num) =>
        (NothingCommitted /\ messagebox' = "Error")
NonNumericBalanceAborted ==
    (last'.op = "balance" /\ ~last'.input.new_bal.num) =>
        (NothingCommitted /\ messagebox' = "Invalid Input")
\* The step is a close-trade with a final close price that is not a number.
NonNumericClose == last'.op = "close" /\ ~popup.close_price_var.num

\* C20: input that is not a number is reported and the operation aborted
\* with the state as it was; a close-trade with an empty or non-numeric
\* final close price leaves the review of the trade, its sl_to_be and the
\* balance as they were.
C20_NonNumericAborts ==
    [][ /\ NonNumericPartialAborted
        /\ NonNumericBalanceAborted
        /\ NonNumericClose =>
             ( /\ messagebox' # ""
               /\ trades'[popup.idx].review = trades[popup.idx].review
               /\ trades'[popup.idx].sl_to_be = trades[popup.idx].sl_to_be
               /\ account_balance_var' = account_balance_var ) ]_vars

\* The part of C20 that holds: the two other operations abort, and the
\* close-trade reports the price that is not a number.
C20_PartialAndBalance ==
    [][ /\ NonNumericPartialAborted
        /\ NonNumericBalanceAborted
        /\ NonNumericClose => messagebox' = "Calculation Warning" ]_vars

\* What the close-trade with a price that is not a number does: the review
\* and sl_to_be are those of the popup, the pnl of the partial closes is
\* added to the balance, and the journal is saved.
C20_CloseGoesOn ==
    [][ NonNumericClose =>
          /\ trades'[popup.idx].review.outcome = popup.outcome_var
          /\ trades'[popup.idx].review.price = popup.close_price_var
          /\ account_balance_var'
               = account_balance_var + SumPnl(trades[popup.idx].partial_closes)
          /\ journal_file' = save_trades(trades', account_balance_var')
          /\ ~popup'.open ]_vars

\* The step changed the trades or the balance in memory and was not a load.
MutatingStep ==
    /\ last'.op # "load"
    /\ trades' # trades \/ account_balance_var' # account_balance_var
\* After the step the journal file is what save writes for the trades and
\* the balance in memory.
FileIsSavedAfter == journal_file' = save_trades(trades', account_balance_var')

\* C21: when an action that changes the trades or the balance has
\* completed, the journal file holds exactly the trades and the balance in
\* memory.
C21_FileHoldsAggregate ==
    [][ MutatingStep => FileIsSavedAfter ]_vars

\* The part of C21 that holds: add trade, add partial close, close trade
\* and the screenshot edit leave the file equal to the memory.
C21_SavedByTradeActions ==
    [][ (MutatingStep /\ last'.op # "balance") => FileIsSavedAfter ]_vars

\* What the balance override does: the balance in memory is the number
\* entered and the journal file is untouched.
C21_OverrideNotSaved ==
    [][ (last'.op = "balance" /\ last'.input.new_bal.num) =>
          (/\ account_balance_var' = last'.input.new_bal.val
           /\ journal_file' = journal_file) ]_vars

\* The step changed the account balance.
BalanceChanged == account_balance_var' # account_balance_var

\* C22 as stated: the balance changes only in a close-trade, partial-close
\* or balance-override step; add trade, screenshot edit and save leave it.
C22_Original ==
    [][ BalanceChanged => last'.op \in {"close", "partial", "balance"} ]_vars

\* C22: the balance changes only in a close-trade, partial-close or
\* balance-override step or in a load of the journal; add trade, screenshot
\* edit and save leave it unchanged.
C22_BalanceFrame ==
    [][ BalanceChanged =>
          last'.op \in {"close", "partial", "balance", "load"} ]_vars

\* The playbook operations leave the balance and the trades unchanged.
C22_PlaybookLeavesBalance ==
    [][ UNCHANGED <<account_balance_var, trades, journal_file>> ]_vars

\* A trade was added and a screenshot attached or the journal saved while
\* the balance was not the default one, and the balance is still that one.
C22_Witness ==
    /\ last.op \in {"screenshot", "save"}
    /\ Len(trades) > 0
    /\ trades[Len(trades)].info.account_balance = account_balance_var
    /\ account_balance_var # DEFAULT_BALANCE

\* The trade of the open popup, and the widgets as the last edit found them.
ReviewedInfo == trades[popup.idx].info
MddPriceEdited == last'.op = "mdd_price" /\ last'.input.text.num
MddPipsEdited == last'.op = "mdd_pips" /\ last'.input.text.num

\* The pips shown, an empty entry read as 0 as the handlers read it, are the
\* adverse distance of the price entered, to the one decimal of the display.
PipsShowDistance ==
    /\ Parses(popup'.max_drawdown_pips_var)
    /\ Abs(FloatOrZero(popup'.max_drawdown_pips_var)
             - AdversePips(ReviewedInfo, last'.input.text.val))
         <= PipScale \div 20
\* The dollars shown are pips * lot_size * usd_per_pip_per_lot for the pips
\* shown, to the cent of the display.
UsdShowPips ==
    /\ popup'.max_drawdown_usd_var.num
    /\ Parses(popup'.max_drawdown_pips_var)
    /\ Abs(popup'.max_drawdown_usd_var.val
             - PnlOf(FloatOrZero(popup'.max_drawdown_pips_var),
                     ReviewedInfo.lot_size))
         <= MoneyScale \div 200

\* C23: after an edit of the max-drawdown price the pips are the adverse
\* distance from the entry, not below 0, and the dollars are pips * lot
\* size * usd per pip per lot; the dollars equality also holds after an
\* edit of the pips.
C23_MaxDrawdown ==
    [][ /\ MddPriceEdited => (PipsShowDistance /\ UsdShowPips)
        /\ MddPipsEdited => UsdShowPips ]_vars

\* The parts of C23 that hold: the dollars follow an edit of the pips, and
\* the pips follow an edit of the price when the pips entry held a number
\* or nothing.
C23_UsdFollowsPips ==
    [][ MddPipsEdited => UsdShowPips ]_vars
C23_PipsFollowPrice ==
    [][ (MddPriceEdited /\ Parses(popup.max_drawdown_pips_var)) =>
          PipsShowDistance ]_vars

\* What the code does with the dollars at an edit of the price: they stay
\* as they were, or are cleared when the pips entry held no number.
C23_UsdStaleAfterPrice ==
    [][ MddPriceEdited =>
          popup'.max_drawdown_usd_var =
              IF Parses(popup.max_drawdown_pips_var)
              THEN popup.max_drawdown_usd_var ELSE Txt ]_vars

\* The time of day the trade-time widget spells, in minutes.
TypedMinutes ==
    Hm(trade_time_var.hh,
       IF trade_time_var.mm = NoMinutes THEN 0 ELSE trade_time_var.mm)

\* C24: the classifier always leaves a label: "Invalid Date/Time" when the
\* date and time do not parse, and for a timezone name that is not
\* recognised the label of the typed time read as UTC.
C24_NeverRaises ==
    /\ ~StateIsValid => market_session_var = "Invalid Date/Time"
    /\ (StateIsValid /\ timezone_var = UnknownTimezone) =>
          /\ market_session_var = SessionString(TypedMinutes)
          /\ market_session_var =
                 update_market_session(trade_date_ok, trade_time_var, "UTC")

\* 09:30 typed with a timezone name that is not recognised, shown as London.
C24_Witness ==
    /\ timezone_var = UnknownTimezone /\ trade_date_ok
    /\ trade_time_var = [hh |-> 9, mm |-> 30]
    /\ market_session_var = "London"

\* The session names of the specification, and the labels that are one
\* name or one "A+B" pair.
ClaimNames == {"Sydney", "Tokyo", "London", "New York"}
NameOrPair == ClaimNames \cup {a \o "+" \o b : a, b \in ClaimNames}

\* C25: at every UTC minute of the day one or two sessions are open, so the
\* label of a date and time that parse is never "Closed" and is always one
\* session name or one "A+B" pair.
C25_OneOrTwoOpen ==
    /\ \A t \in 0..(DayMinutes - 1) :
         /\ Cardinality(ClaimOpenSet(t)) \in {1, 2}
         /\ Len(ActiveSessions(t)) \in {1, 2}
         /\ SessionString(t) \in NameOrPair
    /\ StateIsValid =>
         /\ market_session_var # "Closed"
         /\ market_session_var \in NameOrPair

\* 06:30 typed with the zone Asia/Tokyo, which is 21:30 UTC, when New York
\* is still open and Sydney has opened.
C25_Witness ==
    /\ timezone_var = "Asia/Tokyo" /\ trade_date_ok
    /\ trade_time_var = [hh |-> 6, mm |-> 30]
    /\ StateUtc = Hm(21, 30)
    /\ market_session_var = "Sydney+New York"

\* The trades the close-trade action was invoked on, and the sum of the
\* totals the review table shows for them.
ClosedTrades == {i \in 1..Len(trades) : history.closes[i] > 0}
RECURSIVE SumShownTotals(_)
SumShownTotals(rows) ==
    IF rows = {} THEN 0
    ELSE LET i == CHOOSE r \in rows : TRUE
         IN  trades_tree[i].total_pnl_for_display + SumShownTotals(rows \ {i})

\* C26: while no trade was closed twice, no partial close was added to a
\* closed trade and the balance was neither overridden nor loaded, the
\* balance is the starting balance plus the sum over the closed trades of
\* the total P&L the review table shows for the trade.
C26_BalanceIsSumOfTotals ==
    history.ok =>
        account_balance_var = DEFAULT_BALANCE + SumShownTotals(ClosedTrades)

\* The part of C26 that holds: the same equality when every closed trade
\* was closed with a terminal outcome.
C26_TerminalOutcomes ==
    (/\ history.ok
     /\ \A i \in ClosedTrades : trades[i].review.outcome \in TERMINAL_OUTCOMES) =>
        account_balance_var = DEFAULT_BALANCE + SumShownTotals(ClosedTrades)

\* A trade with a partial close was closed with a terminal outcome and a
\* second trade is open, under the conditions of C26.
C26_TerminalReached ==
    /\ history.ok
    /\ Len(trades) >= 2
    /\ \E i \in ClosedTrades :
         /\ trades[i].review.outcome \in TERMINAL_OUTCOMES
         /\ trades[i].partial_closes # << >>
         /\ trades_tree[i].total_pnl_for_display # 0

\* The step added a partial close, to the trade AddedTo, and AddedPartial
\* is the entry it recorded.
PartialAdded == PartialStep /\ trades' # trades
AddedTo == last'.input.idx
AddedPartial ==
    trades'[AddedTo].partial_closes[Len(trades'[AddedTo].partial_closes)]

\* C27: adding a partial close leaves the balance unchanged; its pnl is
\* recorded on the trade and, for a trade not closed yet (its review holds
\* no terminal outcome), added at once to the total of its row in the review table and to the realized P&L of the
\* stats bar; the close-trade action adds the pnl of the trade's partial
\* closes, with the final leg, to the balance.
C27_PartialReachesBalanceAtClose ==
    [][ /\ PartialStep => account_balance_var' = account_balance_var
        /\ PartialAdded =>
             /\ Len(trades'[AddedTo].partial_closes)
                  = Len(trades[AddedTo].partial_closes) + 1
             /\ AddedPartial.pnl * ((PipScale * LotScale) \div MoneyScale)
                  = last'.input.pips * last'.input.amount.val * USD_PER_PIP_PER_LOT
        /\ (PartialAdded /\ trades[AddedTo].review.outcome \notin TERMINAL_OUTCOMES) =>
             /\ trades_tree'[AddedTo].total_pnl_for_display
                  = trades_tree[AddedTo].total_pnl_for_display + AddedPartial.pnl
             /\ trade_stats_var'.total_realized_pnl
                  = trade_stats_var.total_realized_pnl + AddedPartial.pnl
        /\ last'.op = "close" =>
             account_balance_var'
               = account_balance_var + SumPnl(trades[last'.idx].partial_closes)
                 + (IF trades'[last'.idx].review.price.num
                    THEN FinalLeg(trades'[last'.idx]) ELSE 0) ]_vars

\* A trade with a partial close of one lot at 50 pips has been closed: the
\* balance, unchanged until then, has moved by the $500 of the partial close.
C27_Witness ==
    /\ last.closed /\ history.ok
    /\ Len(trades[last.idx].partial_closes) = 1
    /\ trades[last.idx].partial_closes[1].pnl = 500 * MoneyScale
    /\ last.balance_before = DEFAULT_BALANCE
    /\ account_balance_var = DEFAULT_BALANCE + 500 * MoneyScale

\* The sum of the totals of the first n rows of the review table.
RECURSIVE SumOfRows(_)
SumOfRows(n) ==
    IF n = 0 THEN 0 ELSE trades_tree[n].total_pnl_for_display + SumOfRows(n - 1)

\* C28: in every state of the journal the realized P&L of the stats bar is
\* the sum over all trades of the total P&L of the trade's row in the
\* review table.
C28_StatsEqualTable ==
    /\ Len(trades_tree) = Len(trades)
    /\ trade_stats_var.total_realized_pnl = SumOfRows(Len(trades_tree))

\* Two trades, one of them with a partial close and closed as a win or a
\* loss, and a realized P&L that is not zero.
C28_Witness ==
    /\ Len(trades) = 2
    /\ trade_stats_var.total_realized_pnl # 0
    /\ \E i \in 1..2 :
         /\ trades_tree[i].win_loss_status \in {"Win", "Loss"}
         /\ trades[i].partial_closes # << >>

\* The step changed the entry price, the lot size, the direction of the
\* entry form or the account balance.
FormInputChanged ==
    \/ form'.entry_price # form.entry_price
    \/ form'.lot_size # form.lot_size
    \/ form'.trade_type # form.trade_type
    \/ account_balance_var' # account_balance_var
DirectionSwitched ==
    /\ form'.trade_type # form.trade_type
    /\ form'.entry_price = form.entry_price

\* entry -/+ pips * pip_value for the fields of a form.
SlPriceOf(f) ==
    IF f.trade_type = "Buy"
    THEN f.entry_price.val - (f.sl_pips.val * PIP_VALUE_XAUUSD) \div PipScale
    ELSE f.entry_price.val + (f.sl_pips.val * PIP_VALUE_XAUUSD) \div PipScale
TpPriceOf(f) ==
    IF f.trade_type = "Buy"
    THEN f.entry_price.val + (f.tp_pips.val * PIP_VALUE_XAUUSD) \div PipScale
    ELSE f.entry_price.val - (f.tp_pips.val * PIP_VALUE_XAUUSD) \div PipScale

PipsKept ==
    /\ form'.sl_pips = form.sl_pips
    /\ form'.tp_pips = form.tp_pips
\* The SL (TP) price after the step is the one of the pips, to the two
\* decimals of the field.
SlRederived ==
    /\ form'.sl_price.num
    /\ Abs(form'.sl_price.val - SlPriceOf(form')) <= HalfCent
TpRederived ==
    /\ form'.tp_price.num
    /\ Abs(form'.tp_price.val - TpPriceOf(form')) <= HalfCent
\* The two prices before and after the step lie on opposite sides of the
\* entry price at the same distance, to the cent.
Mirrored ==
    /\ Abs(form'.sl_price.val + form.sl_price.val - 2 * form.entry_price.val)
         <= 2 * HalfCent
    /\ Abs(form'.tp_price.val + form.tp_price.val - 2 * form.entry_price.val)
         <= 2 * HalfCent

\* C29: when the entry price, the lot size, the account balance or the
\* direction changes, the SL and TP pips are kept and the SL and TP prices
\* are derived again from them for the new entry price and direction.
C29_PricesRederived ==
    [][ FormInputChanged =>
          /\ PipsKept
          /\ (form'.entry_price.num /\ form'.sl_pips.num) => SlRederived
          /\ (form'.entry_price.num /\ form'.tp_pips.num) => TpRederived ]_vars

\* The part of C29 that holds: the pips are kept; a price is derived again
\* when the price field itself held a number; a switch of the direction
\* then mirrors both prices around the entry price.
C29_RederivedOverNumbers ==
    [][ FormInputChanged =>
          /\ PipsKept
          /\ (form'.entry_price.num /\ form'.sl_pips.num /\ form.sl_price.num)
                => SlRederived
          /\ (form'.entry_price.num /\ form'.tp_pips.num /\ form.tp_price.num)
                => TpRederived
          /\ (/\ DirectionSwitched /\ form.entry_price.num
              /\ form.sl_pips.num /\ form.sl_price.num
              /\ form.tp_pips.num /\ form.tp_price.num) => Mirrored ]_vars

\* What the code does when the price field holds no number: the field is
\* left as it is.
C29_TextPriceLeft ==
    [][ FormInputChanged =>
          /\ ~form.sl_price.num => form'.sl_price = form.sl_price
          /\ ~form.tp_price.num => form'.tp_price = form.tp_price ]_vars

\* A Sell whose SL of 12.3 pips is above and whose TP of 12.3 pips is
\* below the entry price of 2300.00, after the switch from Buy.
C29_MirrorReached ==
    /\ edited.field = "trade_type" /\ form.trade_type = "Sell"
    /\ form.entry_price = Num(2300 * PriceScale)
    /\ form.sl_pips = Num(1230) /\ form.sl_price = Num(2301230)
    /\ form.tp_pips = Num(1230) /\ form.tp_price = Num(2298770)

\* C30's case: the step is an add_trade.
TradeAdded == last'.op = "add" /\ Len(trades') = Len(trades) + 1

\* The last trade of a list.
Newest(ts) == ts[Len(ts)]

\* The entry form as add_trade leaves it: every screenshot slot None, the
\* entry price, the lot size and the stop and target prices 0.
FormIsReset(f) ==
    /\ f.tf_screenshots = DefaultScreenshots
    /\ f.entry_price = Num(0)
    /\ f.lot_size = Num(0)
    /\ f.sl_price = Num(0)
    /\ f.tp_price = Num(0)

InitForm ==
    /\ \E up \in Ties : form = FormAfterInit(up)
    /\ edited = [field |-> "", value |-> Txt]
    /\ nedits = 0
    /\ trade_date_ok = TRUE
    /\ trade_time_var = [hh |-> 9, mm |-> 30]
    /\ timezone_var = "UTC"
    /\ market_session_var = update_market_session(TRUE, trade_time_var, "UTC")
    /\ trades = << >>
    /\ account_balance_var = DEFAULT_BALANCE
    /\ journal_file = NoJournalFile
    /\ trades_tree = refresh_trades_tree(<< >>)
    /\ trade_stats_var = update_stats_bar(<< >>)
    /\ popup = NoPopup
    /\ messagebox = ""
    /\ last = NoClose
    /\ nops = 0
    /\ mainloop = "running"
    /\ journal_backup = FALSE
    /\ history = NoHistory
    /\ playbook_options = DefaultPlaybook
    /\ playbook_files = DefaultPlaybook
    /\ playbook_messagebox = ""
    /\ last_add = NoAdd
    /\ last_change = NoChange
    /\ nplaybook = 0
    /\ playbook_file_state = [category \in PlaybookCategories |-> "json"]
    /\ playbook_loaded = TRUE
    /\ file_errors = {}

InitSession ==
    /\ \E up \in Ties : form = FormAfterInit(up)
    /\ edited = [field |-> "", value |-> Txt]
    /\ nedits = 0
    /\ trade_date_ok = TRUE
    /\ trade_time_var \in [hh : 0..23, mm : SessionMinutes]
    /\ timezone_var = "UTC"
    /\ market_session_var = update_market_session(TRUE, trade_time_var, "UTC")
    /\ trades = << >>
    /\ account_balance_var = DEFAULT_BALANCE
    /\ journal_file = NoJournalFile
    /\ trades_tree = refresh_trades_tree(<< >>)
    /\ trade_stats_var = update_stats_bar(<< >>)
    /\ popup = NoPopup
    /\ messagebox = ""
    /\ last = NoClose
    /\ nops = 0
    /\ mainloop = "running"
    /\ journal_backup = FALSE
    /\ history = NoHistory
    /\ playbook_options = DefaultPlaybook
    /\ playbook_files = DefaultPlaybook
    /\ playbook_messagebox = ""
    /\ last_add = NoAdd
    /\ last_change = NoChange
    /\ nplaybook = 0
    /\ playbook_file_state = [category \in PlaybookCategories |-> "json"]
    /\ playbook_loaded = TRUE
    /\ file_errors = {}

Init ==
    /\ \E up \in Ties : form = FormAfterInit(up)
    /\ edited = [field |-> "", value |-> Txt]
    /\ nedits = 0
    /\ trade_date_ok = TRUE
    /\ trade_time_var = [hh |-> 9, mm |-> 30]
    /\ timezone_var = "UTC"
    /\ market_session_var = update_market_session(TRUE, trade_time_var, "UTC")
    /\ trades = << >>
    /\ account_balance_var = DEFAULT_BALANCE
    /\ journal_file = NoJournalFile
    /\ trades_tree = refresh_trades_tree(<< >>)
    /\ trade_stats_var = update_stats_bar(<< >>)
    /\ popup = NoPopup
    /\ messagebox = ""
    /\ last = NoClose
    /\ nops = 0
    /\ mainloop = "running"
    /\ journal_backup = FALSE
    /\ history = NoHistory
    /\ playbook_options = DefaultPlaybook
    /\ playbook_files = DefaultPlaybook
    /\ playbook_messagebox = ""
    /\ last_add = NoAdd
    /\ last_change = NoChange
    /\ nplaybook = 0
    /\ playbook_file_state = [category \in PlaybookCategories |-> "json"]
    /\ playbook_loaded = TRUE
    /\ file_errors = {}

InitPlaybook ==
    /\ \E up \in Ties : form = FormAfterInit(up)
    /\ edited = [field |-> "", value |-> Txt]
    /\ nedits = 0
    /\ trade_date_ok = TRUE
    /\ trade_time_var = [hh |-> 9, mm |-> 30]
    /\ timezone_var = "UTC"
    /\ market_session_var = update_market_session(TRUE, trade_time_var, "UTC")
    /\ trades = << >>
    /\ account_balance_var = DEFAULT_BALANCE
    /\ journal_file = NoJournalFile
    /\ trades_tree = refresh_trades_tree(<< >>)
    /\ trade_stats_var = update_stats_bar(<< >>)
    /\ popup = NoPopup
    /\ messagebox = ""
    /\ last = NoClose
    /\ nops = 0
    /\ mainloop = "running"
    /\ journal_backup = FALSE
    /\ history = NoHistory
    /\ playbook_options = DefaultPlaybook
    /\ playbook_files = DefaultPlaybook
    /\ playbook_messagebox = ""
    /\ last_add = NoAdd
    /\ last_change = NoChange
    /\ nplaybook = 0
    /\ playbook_file_state = [category \in PlaybookCategories |-> "json"]
    /\ playbook_loaded = TRUE
    /\ file_errors = {}

\* Before load_playbook_options runs: each file is absent, corrupted, or
\* holds the default list or a list of the user's; no list is in memory.
InitPlaybookLoad ==
    /\ \E up \in Ties : form = FormAfterInit(up)
    /\ edited = [field |-> "", value |-> Txt]
    /\ nedits = 0
    /\ trade_date_ok = TRUE
    /\ trade_time_var = [hh |-> 9, mm |-> 30]
    /\ timezone_var = "UTC"
    /\ market_session_var = update_market_session(TRUE, trade_time_var, "UTC")
    /\ trades = << >>
    /\ account_balance_var = DEFAULT_BALANCE
    /\ journal_file = NoJournalFile
    /\ trades_tree = refresh_trades_tree(<< >>)
    /\ trade_stats_var = update_stats_bar(<< >>)
    /\ popup = NoPopup
    /\ messagebox = ""
    /\ last = NoClose
    /\ nops = 0
    /\ mainloop = "running"
    /\ journal_backup = FALSE
    /\ history = NoHistory
    /\ playbook_options = [category \in PlaybookCategories |-> << >>]
    /\ \E found \in [PlaybookCategories -> FilesFound] :
         /\ playbook_file_state = [category \in PlaybookCategories |->
                                     StateFound(found[category])]
         /\ playbook_files = [category \in PlaybookCategories |->
                                ContentFound(found[category], category)]
    /\ playbook_messagebox = ""
    /\ last_add = NoAdd
    /\ last_change = NoChange
    /\ nplaybook = 0
    /\ playbook_loaded = FALSE
    /\ file_errors = {}

\* Before the load of the constructor (lines 145-146, 193): no trades, the
\* default balance, and the journal file as it is found.
InitJournalLoad ==
    /\ \E up \in Ties : form = FormAfterInit(up)
    /\ edited = [field |-> "", value |-> Txt]
    /\ nedits = 0
    /\ trade_date_ok = TRUE
    /\ trade_time_var = [hh |-> 9, mm |-> 30]
    /\ timezone_var = "UTC"
    /\ market_session_var = update_market_session(TRUE, trade_time_var, "UTC")
    /\ trades = << >>
    /\ account_balance_var = DEFAULT_BALANCE
    /\ journal_file \in JournalFilesFound
    /\ trades_tree = refresh_trades_tree(<< >>)
    /\ trade_stats_var = update_stats_bar(<< >>)
    /\ popup = NoPopup
    /\ messagebox = ""
    /\ last = NoClose
    /\ nops = 0
    /\ mainloop = "init"
    /\ journal_backup = FALSE
    /\ history = NoHistory
    /\ playbook_options = DefaultPlaybook
    /\ playbook_files = DefaultPlaybook
    /\ playbook_messagebox = ""
    /\ last_add = NoAdd
    /\ last_change = NoChange
    /\ nplaybook = 0
    /\ playbook_file_state = [category \in PlaybookCategories |-> "json"]
    /\ playbook_loaded = TRUE
    /\ file_errors = {}

\* The trades the review popup is opened on: a Buy and a Sell entered at
\* 2300.00, of one lot and of half a lot.
ReviewSnapshots ==
    FormSnapshots \cup
    { [snapshot EXCEPT !.lot_size = LotScale \div 2] : snapshot \in FormSnapshots }

\* One trade added to the empty journal and its review popup opened.
InitReview ==
    /\ \E up \in Ties : form = ResetForm(FormAfterInit(up), up)
    /\ edited = [field |-> "", value |-> Txt]
    /\ nedits = 0
    /\ trade_date_ok = TRUE
    /\ trade_time_var = [hh |-> 9, mm |-> 30]
    /\ timezone_var = "UTC"
    /\ market_session_var = update_market_session(TRUE, trade_time_var, "UTC")
    /\ \E snapshot \in ReviewSnapshots, up \in Ties :
         LET ts == <<NewTrade(snapshot, DEFAULT_BALANCE)>>
         IN  /\ trades = ts
             /\ journal_file = save_trades(ts, DEFAULT_BALANCE)
             /\ trades_tree = refresh_trades_tree(ts)
             /\ trade_stats_var = update_stats_bar(ts)
             /\ popup = update_mdd_usd_from_pips(
                            sync_price_field(
                                [open |-> TRUE, idx |-> 1,
                                 outcome_var |-> ts[1].review.outcome,
                                 close_price_var |-> ts[1].review.price,
                                 price_state |-> "normal",
                                 max_drawdown_pips_var |-> Txt,
                                 max_drawdown_usd_var |-> Txt,
                                 max_drawdown_price_var |-> Txt],
                                ts[1].info, up),
                            ts[1].info, up, FALSE)
    /\ account_balance_var = DEFAULT_BALANCE
    /\ messagebox = ""
    /\ last = NoClose
    /\ nops = 2
    /\ mainloop = "running"
    /\ journal_backup = FALSE
    /\ history = [closes |-> <<0>>, ok |-> TRUE]
    /\ playbook_options = DefaultPlaybook
    /\ playbook_files = DefaultPlaybook
    /\ playbook_messagebox = ""
    /\ last_add = NoAdd
    /\ last_change = NoChange
    /\ nplaybook = 0
    /\ playbook_file_state = [category \in PlaybookCategories |-> "json"]
    /\ playbook_loaded = TRUE
    /\ file_errors = {}

SpecForm == InitForm /\ [][NextForm]_vars
SpecSession == InitSession /\ [][NextSession]_vars
Spec == Init /\ [][NextJournal]_vars
SpecPlaybook == InitPlaybook /\ [][NextPlaybook]_vars
SpecPlaybookLoad == InitPlaybookLoad /\ [][NextPlaybookLoad]_vars
SpecJournalLoad == InitJournalLoad /\ [][NextJournalLoad]_vars
SpecReview == InitReview /\ [][NextReview]_vars

=============================================================================
